---- MODULE Spec2Model ----
(***************************************************************************)
(* A model of the source manager of the Serene compiler front-end         *)
(* (SourceMgr: buffer registry, load-path resolution, namespace index,    *)
(* lazy line-offset cache).                                                *)
(*                                                                         *)
(* Strings are sequences of one-character strings, so that path building  *)
(* and line indexing are computed and not assumed. A `const char *` into a *)
(* buffer is the record [null, off]: off is the distance from the buffer's *)
(* first byte. The heap holds the offset caches: a SrcBuffer's offsetCache *)
(* is 0 (nullptr) or the address of a heap cell.                           *)
(***************************************************************************)
EXTENDS Integers, Sequences, FiniteSets, TLC

VARIABLES loadPaths, files, buffers, heap, nsTable, namespace, own, jit,
          reader, last

vars == <<loadPaths, files, buffers, heap, nsTable, namespace, own, jit,
         reader, last>>

-----------------------------------------------------------------------------
(* Bounds of the model *)

\* most buffers a Source Manager holds in one behaviour
MaxBuffers == 3
\* longest buffer of the line-index specification
MaxLen == 4
\* largest line number asked for
MaxLine == 3

-----------------------------------------------------------------------------
(* Strings *)

NL == "\n"

RECURSIVE Replace(_, _, _)
\* std::replace(begin, end, from, to)
Replace(s, from, to) ==
  IF s = <<>> THEN <<>>
  ELSE <<IF Head(s) = from THEN to ELSE Head(s)>> \o Replace(Tail(s), from, to)

\* llvm::sys::path::get_separator() on a POSIX host
get_separator == <<"/">>

\* llvm::sys::path::native on a POSIX host: backslashes become slashes
native(path) == Replace(path, "\\", "/")

\* the file extension of the dialect
DEFAULT_SUFFIX == <<"s", "r", "n">>

RECURSIVE ReplaceFirst(_, _, _)
ReplaceFirst(s, from, to) ==
  IF s = <<>> THEN <<>>
  ELSE IF Head(s) = from THEN <<to>> \o Tail(s)
  ELSE <<Head(s)>> \o ReplaceFirst(Tail(s), from, to)

\* a conversion that replaces the first '.' only
convertNamespaceToPathFirstDot(ns_name) == native(ReplaceFirst(ns_name, ".", "/"))

\* std::replace ns_name '.' -> '/', then path::native
convertNamespaceToPath(ns_name) == native(Replace(ns_name, ".", "/"))

-----------------------------------------------------------------------------
(* The values operations are called with *)

Names == { <<"a", ".", "b", ".", "c">>, <<"d">> }
Dirs == { <<"/", "x">>, <<"/", "y">> }

\* the files a probe of a directory of Dirs for a name of Names can open
FilePaths ==
  { d \o get_separator \o convertNamespaceToPath(n) \o <<".">> \o DEFAULT_SUFFIX :
      d \in Dirs, n \in Names }

\* what a file on disk may hold
FileContents == { <<"a", NL>>, <<"(", "b", ")">> }
NoFile == <<"ENOENT">>

\* Location / LocationRange, as far as the source manager looks at them
UnknownLocation == [known |-> FALSE, line |-> 0, col |-> 0]
ImportLocs == { UnknownLocation, [known |-> TRUE, line |-> 1, col |-> 1] }

LoadPathLists == { <<>> } \cup { <<d>> : d \in Dirs }
                   \cup ({ <<d, e>> : d \in Dirs, e \in Dirs }
                           \ { <<d, d>> : d \in Dirs })

NullPtr == [null |-> TRUE, off |-> 0]
Ptr(n) == [null |-> FALSE, off |-> n]

-----------------------------------------------------------------------------
(* SrcBuffer: buffer is the unique_ptr to the bytes (<<>> when null, else *)
(* <<bytes>>), offsetCache the void* to the cache (0 when null).          *)

SrcBuffer(f, includeLoc) ==
  [buffer |-> <<f>>, offsetCache |-> 0, importLoc |-> includeLoc]

\* a move constructor that forgets `other.offsetCache = nullptr`
SrcBufferMoveKeepsOther(other) ==
  [to   |-> [buffer |-> other.buffer, offsetCache |-> other.offsetCache,
             importLoc |-> other.importLoc],
   from |-> [buffer |-> <<>>, offsetCache |-> other.offsetCache,
             importLoc |-> other.importLoc]]

\* SrcBuffer(SrcBuffer &&other): what the new object holds and what is left
\* in other
SrcBufferMove(other) ==
  [to   |-> [buffer |-> other.buffer, offsetCache |-> other.offsetCache,
             importLoc |-> other.importLoc],
   from |-> [buffer |-> <<>>, offsetCache |-> 0, importLoc |-> other.importLoc]]

\* ~SrcBuffer(): the heap after b is destroyed
SrcBufferDestroy(b, h) ==
  IF b.offsetCache # 0
    THEN [h EXCEPT ![b.offsetCache] = [@ EXCEPT !.live = FALSE]]
    ELSE h

RECURSIVE DestroyAll(_, _)
DestroyAll(bs, h) ==
  IF bs = <<>> THEN h ELSE DestroyAll(Tail(bs), SrcBufferDestroy(Head(bs), h))

\* buffers.push_back(std::move(nb)): the vector moves its elements to new
\* storage when it has to grow (realloc) and destroys the moved-from ones;
\* nb itself is destroyed when AddNewSourceBuffer returns
PushBack(vec, h, nb, realloc) ==
  LET moves  == [i \in 1..Len(vec) |-> SrcBufferMove(vec[i])]
      kept   == IF realloc THEN [i \in 1..Len(vec) |-> moves[i].to] ELSE vec
      h1     == IF realloc
                  THEN DestroyAll([i \in 1..Len(vec) |-> moves[i].from], h)
                  ELSE h
      m      == SrcBufferMove(nb)
  IN  [vec |-> Append(kept, m.to), heap |-> SrcBufferDestroy(m.from, h1)]

\* AddNewSourceBuffer returning the size read before the push_back
AddNewSourceBufferOldSize(vec, h, f, includeLoc, realloc) ==
  LET r == PushBack(vec, h, SrcBuffer(f, includeLoc), realloc)
  IN  [buffers |-> r.vec, heap |-> r.heap, ret |-> Len(vec)]

\* SourceMgr::AddNewSourceBuffer: the vector, the heap and the returned id
AddNewSourceBuffer(vec, h, f, includeLoc, realloc) ==
  LET nb == SrcBuffer(f, includeLoc)
      r  == PushBack(vec, h, nb, realloc)
  IN  [buffers |-> r.vec, heap |-> r.heap, ret |-> Len(r.vec)]

\* a validity test that forgets the reserved id 0
isValidBufferIDNoZeroTest(i) == i <= Len(buffers)

\* a validity test that leaves out the newest id
isValidBufferIDBelowSize(i) == i # 0 /\ i < Len(buffers)

\* SourceMgr::isValidBufferID
isValidBufferID(i) == i # 0 /\ i <= Len(buffers)

-----------------------------------------------------------------------------
(* The lazy line-offset cache *)

Pow2(w) == 2 ^ w

\* std::numeric_limits<uintW_t>::max()
MaxOf(w) == Pow2(w) - 1

RECURSIVE ScanNewlinesAlsoCR(_, _, _)
\* a scan that also records carriage returns
ScanNewlinesAlsoCR(s, n, w) ==
  IF n >= Len(s) THEN <<>>
  ELSE (IF s[n + 1] \in {NL, "\r"} THEN <<n % Pow2(w)>> ELSE <<>>)
         \o ScanNewlinesAlsoCR(s, n + 1, w)

RECURSIVE ScanNewlines(_, _, _)
\* for (n = 0; n < sz; ++n) if (s[n] == '\n') push_back(static_cast<T>(n))
ScanNewlines(s, n, w) ==
  IF n >= Len(s) THEN <<>>
  ELSE (IF s[n + 1] = NL THEN <<n % Pow2(w)>> ELSE <<>>)
         \o ScanNewlines(s, n + 1, w)

\* what a read through a cache pointer can yield: the vector, or anything
\* when the cell was freed
GarbageOffsets == { <<>>, <<0>> }
CacheRead(h, addr) ==
  IF h[addr].live THEN { h[addr].offsets } ELSE GarbageOffsets

\* GetOrCreateOffsetCache<T>: the outcomes [offsetCache, heap, offsets]
GetOrCreateOffsetCache(w, offsetCache, buffer, h) ==
  IF offsetCache # 0
    THEN { [offsetCache |-> offsetCache, heap |-> h, offsets |-> o, built |-> FALSE,
            assertOk |-> TRUE] : o \in CacheRead(h, offsetCache) }
    ELSE LET offsets == ScanNewlines(buffer, 0, w)
             cell == [live |-> TRUE, width |-> w, offsets |-> offsets]
         IN  { [offsetCache |-> Len(h) + 1, heap |-> Append(h, cell),
                offsets |-> offsets, built |-> TRUE,
                assertOk |-> (Len(buffer) <= MaxOf(w))] }

\* the line test off by one: `lineNo >= offsets.size()`
LinePointerEarlyNull(offsets, lineNo) ==
  LET ln == IF lineNo # 0 THEN lineNo - 1 ELSE lineNo
  IN  IF ln = 0 THEN Ptr(0)
      ELSE IF ln >= Len(offsets) THEN NullPtr
      ELSE Ptr(offsets[ln] + 1)

\* the pointer arithmetic of getPointerForLineNumberSpecialized
LinePointer(offsets, lineNo) ==
  LET ln == IF lineNo # 0 THEN lineNo - 1 ELSE lineNo
  IN  IF ln = 0 THEN Ptr(0)
      ELSE IF ln > Len(offsets) THEN NullPtr
      ELSE Ptr(offsets[ln] + 1)

\* SrcBuffer::getPointerForLineNumberSpecialized<T>
getPointerForLineNumberSpecialized(w, b, h, lineNo) ==
  { [ret |-> LinePointer(c.offsets, lineNo), offsetCache |-> c.offsetCache,
     heap |-> c.heap, built |-> c.built, assertOk |-> c.assertOk] :
      c \in GetOrCreateOffsetCache(w, b.offsetCache, b.buffer[1], h) }

\* A size_t can pass 2^31: it is kept as <<high, low>> to the base 2^16.
Wide(n) == <<n \div Pow2(16), n % Pow2(16)>>
WideLeq(a, b) == a[1] < b[1] \/ (a[1] = b[1] /\ a[2] <= b[2])
WideSucc(n) == IF n[2] = MaxOf(16) THEN <<n[1] + 1, 0>> ELSE <<n[1], n[2] + 1>>
WidePred(n) == IF n[2] = 0 THEN <<n[1] - 1, MaxOf(16)>> ELSE <<n[1], n[2] - 1>>

\* std::numeric_limits<uintW_t>::max() for W in 8, 16, 32
MaxOfWide(w) == IF w = 32 THEN <<MaxOf(16), MaxOf(16)>> ELSE <<0, MaxOf(w)>>

\* sz <= std::numeric_limits<T>::max(); a size_t always fits 64 bits
FitsWide(sz, w) == w = 64 \/ WideLeq(sz, MaxOfWide(w))

\* static_cast<T>(n) of a size_t n
CastWide(n, w) ==
  IF w = 8 THEN <<0, n[2] % Pow2(8)>>
  ELSE IF w = 16 THEN <<0, n[2]>>
  ELSE IF w = 32 THEN <<n[1] % Pow2(16), n[2]>>
  ELSE n

\* a width selection with `<` where the code has `<=`
ElementWidthWideStrict(sz) ==
  IF sz # MaxOfWide(8) /\ WideLeq(sz, MaxOfWide(8)) THEN 8
  ELSE IF sz # MaxOfWide(16) /\ WideLeq(sz, MaxOfWide(16)) THEN 16
  ELSE IF sz # MaxOfWide(32) /\ WideLeq(sz, MaxOfWide(32)) THEN 32
  ELSE 64

\* SrcBuffer::getPointerForLineNumber: the element width follows the size
ElementWidthWide(sz) ==
  IF WideLeq(sz, MaxOfWide(8)) THEN 8
  ELSE IF WideLeq(sz, MaxOfWide(16)) THEN 16
  ELSE IF WideLeq(sz, MaxOfWide(32)) THEN 32
  ELSE 64

ElementWidth(sz) == ElementWidthWide(Wide(sz))

\* SrcBuffer::~SrcBuffer: the element width the cache is deleted as
DeleteWidth(sz) ==
  IF WideLeq(sz, MaxOfWide(8)) THEN 8
  ELSE IF WideLeq(sz, MaxOfWide(16)) THEN 16
  ELSE IF WideLeq(sz, MaxOfWide(32)) THEN 32
  ELSE 64

getPointerForLineNumber(b, h, lineNo) ==
  getPointerForLineNumberSpecialized(ElementWidth(Len(b.buffer[1])), b, h, lineNo)

-----------------------------------------------------------------------------
(* The buffer registry as a state machine *)

\* the (bytes, import location) pairs AddNewSourceBuffer is called with
BufInputs ==
  { << <<"a", NL>>, UnknownLocation >>,
    << <<"(", "b", NL, NL, ")">>, [known |-> TRUE, line |-> 1, col |-> 1] >> }

\* no JIT has been constructed
\* no Reader has been constructed
NoReader == <<>>

NoJIT == [options |-> <<>>, cache |-> <<>>, loadPaths |-> <<>>,
          jitDylibs |-> <<>>]

\* no Namespace object has been constructed
NoNamespace == [tree |-> <<>>, environments |-> <<>>]

\* no ast node has been made: the caller's Ast and Node handle are empty
NoNodes == [ast |-> <<>>, n |-> 0, lists |-> <<>>, made |-> 0]

Init ==
  /\ loadPaths = <<>>
  /\ files = [p \in FilePaths |-> NoFile]
  /\ buffers = <<>>
  /\ heap = <<>>
  /\ nsTable = <<>>
  /\ namespace = NoNamespace
  /\ own = NoNodes
  /\ jit = NoJIT
  /\ reader = NoReader
  /\ last = [op |-> "init"]

AddBuffer(f, includeLoc, realloc) ==
  /\ Len(buffers) < MaxBuffers
  /\ LET r == AddNewSourceBuffer(buffers, heap, f, includeLoc, realloc)
     IN  /\ buffers' = r.buffers
         /\ heap' = r.heap
         /\ last' = [op |-> "AddNewSourceBuffer", ret |-> r.ret,
                     moved |-> realloc /\ buffers # <<>>]
  /\ UNCHANGED <<loadPaths, files, nsTable, namespace, own, jit, reader>>

IsValid(i) ==
  /\ last' = [op |-> "isValidBufferID", id |-> i, ret |-> isValidBufferID(i)]
  /\ UNCHANGED <<loadPaths, files, buffers, heap, nsTable, namespace, own, jit,
              reader>>

LineLookup(id, lineNo) ==
  /\ isValidBufferID(id)
  /\ \E o \in getPointerForLineNumber(buffers[id], heap, lineNo) :
       /\ buffers' = [buffers EXCEPT ![id].offsetCache = o.offsetCache]
       /\ heap' = o.heap
       /\ last' = [op |-> "getPointerForLineNumber", id |-> id,
                   lineNo |-> lineNo, ret |-> o.ret, built |-> o.built]
  /\ UNCHANGED <<loadPaths, files, nsTable, namespace, own, jit, reader>>

Next ==
  \/ \E in \in BufInputs, realloc \in BOOLEAN : AddBuffer(in[1], in[2], realloc)
  \/ \E i \in 0..(MaxBuffers + 1) : IsValid(i)
  \/ \E id \in 1..MaxBuffers, lineNo \in 0..MaxLine : LineLookup(id, lineNo)

Spec == Init /\ [][Next]_vars

-----------------------------------------------------------------------------
(* The reader, as far as readNamespace depends on it: whitespace, lists,  *)
(* numbers and symbols, with the location of every node and error.        *)

IsWhitespace(c) == c \in { " ", "\t", NL, "\r", "," }
IsDigit(c) == c \in { "0", "1", "2", "3", "4", "5", "6", "7", "8", "9" }
isValidForIdentifier(c) == ~IsWhitespace(c) /\ c \notin { "(", ")" }

\* the (line, column) of the byte at 1-based position p of buf
LocationAt(buf, p) ==
  LET before == { j \in 1..(p - 1) : j <= Len(buf) /\ buf[j] = NL }
      lastNL == IF before = {} THEN 0
                ELSE CHOOSE j \in before : \A k \in before : k <= j
  IN  [known |-> TRUE, line |-> Cardinality(before) + 1, col |-> p - lastNL]

SubStr(buf, from, to) == [k \in 1..(to - from + 1) |-> buf[from + k - 1]]

\* the first position >= p matching no character of the class, Len + 1 if none
InClass(class, c) ==
  CASE class = "whitespace" -> IsWhitespace(c)
    [] class = "digit" -> IsDigit(c)
    [] OTHER -> isValidForIdentifier(c)

RECURSIVE SkipWhile(_, _, _)
SkipWhile(buf, p, class) ==
  IF p <= Len(buf) /\ InClass(class, buf[p]) THEN SkipWhile(buf, p + 1, class) ELSE p

ReaderError(type, loc) == [ok |-> FALSE, type |-> type, location |-> loc]

\* a split at the last '/'
SymbolNodeLastSlash(loc, name, currentNS) ==
  LET slashes == { j \in 1..Len(name) : name[j] = "/" }
      partDelimiter == CHOOSE j \in slashes : \A k \in slashes : j >= k
  IN  IF slashes = {}
        THEN [kind |-> "Symbol", location |-> loc, nsName |-> currentNS, name |-> name]
        ELSE [kind |-> "Symbol", location |-> loc,
              nsName |-> SubStr(name, 1, partDelimiter - 1),
              name |-> SubStr(name, partDelimiter + 1, Len(name))]

\* Symbol::Symbol: split at the first '/', else the current namespace
SymbolNode(loc, name, currentNS) ==
  LET slashes == { j \in 1..Len(name) : name[j] = "/" }
      partDelimiter == CHOOSE j \in slashes : \A k \in slashes : j <= k
  IN  IF slashes = {}
        THEN [kind |-> "Symbol", location |-> loc, nsName |-> currentNS, name |-> name]
        ELSE [kind |-> "Symbol", location |-> loc,
              nsName |-> SubStr(name, 1, partDelimiter - 1),
              name |-> SubStr(name, partDelimiter + 1, Len(name))]

readSymbol(buf, p, ns) ==
  LET q == SkipWhile(buf, p, "identifier")
  IN  IF q = p
        THEN ReaderError("InvalidCharacterForSymbol", LocationAt(buf, p))
        ELSE [ok |-> TRUE, next |-> q,
              node |-> SymbolNode([start |-> LocationAt(buf, p),
                                   end |-> LocationAt(buf, q - 1)],
                                  SubStr(buf, p, q - 1), ns)]

readNumber(buf, p) ==
  LET neg == buf[p] = "-"
      d0  == IF neg THEN p + 1 ELSE p
      d1  == SkipWhile(buf, d0, "digit")
      dot == d1 <= Len(buf) /\ buf[d1] = "."
      f1  == IF dot THEN SkipWhile(buf, d1 + 1, "digit") ELSE d1
  IN  IF d1 = d0 THEN ReaderError("InvalidDigitForNumber", LocationAt(buf, d0))
      ELSE IF dot /\ f1 = d1 + 1
        THEN ReaderError("InvalidDigitForNumber", LocationAt(buf, f1))
      ELSE IF dot /\ f1 <= Len(buf) /\ buf[f1] = "."
        THEN ReaderError("TwoFloatPoints", LocationAt(buf, f1))
      ELSE [ok |-> TRUE, next |-> f1,
            node |-> [kind |-> "Number",
                      location |-> [start |-> LocationAt(buf, p),
                                    end |-> LocationAt(buf, f1 - 1)],
                      value |-> SubStr(buf, d0, f1 - 1),
                      isNeg |-> neg, isFloat |-> dot]]

RECURSIVE readExpr(_, _, _)
RECURSIVE readListItems(_, _, _, _, _)

\* the items of a list opened at position open, read from position p on
readListItems(buf, open, p, ns, items) ==
  LET q == SkipWhile(buf, p, "whitespace")
  IN  IF q > Len(buf)
        THEN ReaderError("EOFWhileScaningAList", LocationAt(buf, open))
      ELSE IF buf[q] = ")"
        THEN [ok |-> TRUE, next |-> q + 1,
              node |-> [kind |-> "List",
                        location |-> [start |-> LocationAt(buf, open),
                                      end |-> LocationAt(buf, q)],
                        elements |-> items]]
      ELSE LET e == readExpr(buf, q, ns)
           IN  IF e.ok THEN readListItems(buf, open, e.next, ns, Append(items, e.node))
               ELSE e

readList(buf, p, ns) == readListItems(buf, p, p + 1, ns, <<>>)

\* p is the position of a non-whitespace byte
readExpr(buf, p, ns) ==
  IF buf[p] = "(" THEN readList(buf, p, ns)
  ELSE IF IsDigit(buf[p])
          \/ (buf[p] = "-" /\ p < Len(buf) /\ IsDigit(buf[p + 1]))
    THEN readNumber(buf, p)
  ELSE readSymbol(buf, p, ns)

RECURSIVE readForms(_, _, _, _)
readForms(buf, p, ns, forms) ==
  LET q == SkipWhile(buf, p, "whitespace")
  IN  IF q > Len(buf) THEN [ok |-> TRUE, ast |-> forms]
      ELSE LET e == readExpr(buf, q, ns)
           IN  IF e.ok THEN readForms(buf, e.next, ns, Append(forms, e.node))
               ELSE e

\* serene::read(input, ns, filename): the Ast or the first error
read(input, ns, filename) == readForms(input, 1, ns, <<>>)

-----------------------------------------------------------------------------
(* Environment<V>: a StringMap of bindings and a parent pointer. An        *)
(* environment is known by its address (0 is nullptr); the value 0 is V(), *)
(* the default-constructed value, which tests false.                       *)

\* Environment(Environment *parent), allocated at addr
Environment(parent, addr) == [addr |-> addr, parent |-> parent, pairs |-> <<>>]

\* llvm::StringMap<V>::lookup: the value, or V() when the key is absent
StringMapLookup(pairs, key) == IF key \in DOMAIN pairs THEN pairs[key] ELSE 0

\* the environment a pointer refers to
EnvAt(environments, addr) ==
  CHOOSE e \in { environments[i] : i \in DOMAIN environments } : e.addr = addr

RECURSIVE lookup(_, _, _)
\* Environment::lookup: <<value>>, or <<>> for std::nullopt
lookup(environments, addr, key) ==
  LET e == EnvAt(environments, addr)
      value == StringMapLookup(e.pairs, key)
  IN  IF value # 0 THEN <<value>>
      ELSE IF e.parent # 0 THEN lookup(environments, e.parent, key)
      ELSE <<>>

\* Environment::insert_symbol on the environment at addr
insert_symbol(environments, addr, key, value) ==
  [environments |->
     [i \in DOMAIN environments |->
        IF environments[i].addr = addr
          THEN [environments[i] EXCEPT !.pairs = (key :> value) @@ @]
          ELSE environments[i]],
   ret |-> "success"]

\* a createEnv that puts the new environment in front
createEnvPushFront(environments, parent) ==
  LET addr == Len(environments) + 1
  IN  [environments |-> <<Environment(parent, addr)>> \o environments,
       ret |-> addr]

\* Namespace::createEnv: the environments and the address returned
createEnv(environments, parent) ==
  LET addr == Len(environments) + 1
  IN  [environments |-> Append(environments, Environment(parent, addr)),
       ret |-> addr]

\* Namespace::getRootEnv: assert(!environments.empty()), then the front
getRootEnv(environments) ==
  [assertOk |-> environments # <<>>,
   ret |-> IF environments # <<>> THEN environments[1].addr ELSE 0]

\* Namespace::define: insert or overwrite in the root environment
define(environments, name, node) ==
  insert_symbol(environments, getRootEnv(environments).ret, name, node)

-----------------------------------------------------------------------------
(* Namespaces *)

CompilationPhases == { "Parse", "Analysis" }

\* a constructor that takes the file name for the name
MakeNamespaceSwapped(loc, name, filename) ==
  [location |-> loc, name |-> filename, filename |-> name, tree |-> <<>>,
   environments |-> createEnv(<<>>, 0).environments]

\* ast::Namespace::Namespace: the root environment is created here
MakeNamespace(loc, name, filename) ==
  [location |-> loc, name |-> name, filename |-> filename, tree |-> <<>>,
   environments |-> createEnv(<<>>, 0).environments]

\* a List constructor that takes the elements and leaves v as it was
ListFromAstKeepsArg(v) == [elements |-> v, v |-> v]

\* List::List(loc, Ast &v): elements.swap(v); v.clear(). The list's
\* elements and what is left in v
ListFromAst(v) ==
  LET swapped == [elements |-> v, v |-> <<>>]
  IN  [elements |-> swapped.elements, v |-> <<>>]

\* List::List(List &&l): elements.swap(l.elements); l.elements.clear()
ListMove(l) ==
  LET swapped == [elements |-> l.elements, from |-> <<>>]
  IN  [elements |-> swapped.elements, from |-> <<>>]

\* List::append(Node &n): elements.push_back(std::move(n)); the handle n
\* is null afterwards
ListAppend(elements, n) == [elements |-> Append(elements, n), n |-> 0]

\* an ExpandTree that keeps the forms only in the Parse phase
ExpandTreeParseOnly(tree, ast, phase) ==
  IF phase = "Parse"
    THEN [tree |-> tree \o ast, ast |-> <<>>, err |-> <<>>]
    ELSE [tree |-> tree, ast |-> <<>>, err |-> <<>>]

\* Namespace::ExpandTree: the namespace's tree, the emptied ast, the error
ExpandTree(tree, ast, phase) ==
  IF phase = "Parse"
    THEN [tree |-> tree \o ast, ast |-> <<>>, err |-> <<>>]
    ELSE [tree |-> tree \o ast, ast |-> <<>>, err |-> <<>>]

-----------------------------------------------------------------------------
(* Namespace resolution *)

\* llvm::MemoryBuffer::getFile
getFile(path) ==
  IF path \in DOMAIN files /\ files[path] # NoFile
    THEN [ok |-> TRUE, buf |-> files[path]]
    ELSE [ok |-> FALSE, buf |-> <<>>]

ProbePath(dir, path) == dir \o get_separator \o path \o <<".">> \o DEFAULT_SUFFIX

RECURSIVE ProbeFromLastHit(_, _, _, _)
\* a loop that keeps probing after a hit, so that the last hit wins
ProbeFromLastHit(i, path, importedFile, probed) ==
  IF i > Len(loadPaths)
    THEN [buf |-> <<>>, importedFile |-> importedFile, probed |-> probed]
    ELSE LET file == ProbePath(loadPaths[i], path)
             newBufOrErr == getFile(file)
             rest == ProbeFromLastHit(i + 1, path, file, Append(probed, file))
         IN  IF ~newBufOrErr.ok \/ rest.buf # <<>>
               THEN rest
               ELSE [buf |-> <<newBufOrErr.buf>>, importedFile |-> file,
                     probed |-> rest.probed]

\* a loop that gives up at the first directory whose read fails
ProbeFromAbortOnError(i, path, importedFile, probed) ==
  IF i > Len(loadPaths)
    THEN [buf |-> <<>>, importedFile |-> importedFile, probed |-> probed]
    ELSE LET file == ProbePath(loadPaths[i], path)
             newBufOrErr == getFile(file)
         IN  IF ~newBufOrErr.ok
               THEN [buf |-> <<>>, importedFile |-> file,
                     probed |-> Append(probed, file)]
               ELSE [buf |-> <<newBufOrErr.buf>>, importedFile |-> file,
                     probed |-> Append(probed, file)]

RECURSIVE ProbeFrom(_, _, _, _)
\* the loop of findFileInLoadPath from index i on; probed lists the paths
\* handed to getFile so far
ProbeFrom(i, path, importedFile, probed) ==
  IF i > Len(loadPaths)
    THEN [buf |-> <<>>, importedFile |-> importedFile, probed |-> probed]
    ELSE LET file == ProbePath(loadPaths[i], path)
             newBufOrErr == getFile(file)
         IN  IF ~newBufOrErr.ok
               THEN ProbeFrom(i + 1, path, file, Append(probed, file))
               ELSE [buf |-> <<newBufOrErr.buf>>, importedFile |-> file,
                     probed |-> Append(probed, file)]

\* SourceMgr::findFileInLoadPath: buf is <<>> for nullptr, else <<bytes>>
findFileInLoadPath(name) ==
  ProbeFrom(1, convertNamespaceToPath(name), <<>>, <<>>)

\* nsTable.insert(name, bufferId): an existing mapping is kept
insert_only(table, name, bufferId) ==
  IF name \in DOMAIN table THEN table ELSE (name :> bufferId) @@ table

\* nsTable.insert_or_assign(name, bufferId)
insert_or_assign(table, name, bufferId) == (name :> bufferId) @@ table

\* the error located nowhere instead of at the import site
LoadErrorUnknownLoc(name, importLoc) ==
  [ok |-> FALSE, type |-> "NSLoadError", location |-> UnknownLocation,
   msg |-> <<"Couldn't find namespace", name>>]

\* errors::make(NSLoadError, importLoc, "Couldn't find namespace '{0}'")
LoadError(name, importLoc) ==
  [ok |-> FALSE, type |-> "NSLoadError", location |-> importLoc,
   msg |-> <<"Couldn't find namespace", name>>]

\* an error handed on with its location lost
takeErrorUnknownLoc(maybeAst) ==
  [ok |-> FALSE, type |-> maybeAst.type, location |-> UnknownLocation,
   msg |-> <<>>]

\* maybeAst.takeError(): the reader's error, handed on as it is
takeError(maybeAst) ==
  [ok |-> FALSE, type |-> maybeAst.type, location |-> maybeAst.location,
   msg |-> <<>>]

\* SourceMgr::readNamespace from the registration of the found file on
readNamespaceFound(name, importLoc, realloc, phase, found) ==
  LET added == AddNewSourceBuffer(buffers, heap, found.buf[1], importLoc, realloc)
      bufferId == added.ret
      table == insert_or_assign(nsTable, name, bufferId)
      now == [buffers |-> added.buffers, heap |-> added.heap,
              nsTable |-> table, probed |-> found.probed]
  IN  IF bufferId = 0
        THEN now @@
             [ret |-> [ok |-> FALSE, type |-> "NSAddToSMError",
                       location |-> importLoc,
                       msg |-> <<"Couldn't add namespace", name>>]]
        ELSE
          LET buf == added.buffers[bufferId].buffer[1]
              maybeAst == read(buf, name, found.importedFile)
          IN  IF ~maybeAst.ok
                THEN now @@ [ret |-> takeError(maybeAst)]
                ELSE
                  LET ns == MakeNamespace(importLoc, name, found.importedFile)
                      x  == ExpandTree(ns.tree, maybeAst.ast, phase)
                  IN  IF x.err # <<>>
                        THEN now @@ [ret |-> [ok |-> FALSE, type |-> x.err[1],
                                              location |-> importLoc,
                                              msg |-> <<>>]]
                        ELSE now @@ [ret |-> [ok |-> TRUE,
                                              ns |-> [ns EXCEPT !.tree = x.tree]]]

\* a readNamespace that runs the reader on the file before it registers it
readNamespaceReadsFirst(name, importLoc, realloc, phase) ==
  LET found == findFileInLoadPath(name)
      same  == [buffers |-> buffers, heap |-> heap, nsTable |-> nsTable,
                probed |-> found.probed]
  IN  IF found.buf = <<>>
        THEN same @@ [ret |-> LoadError(name, importLoc)]
      ELSE IF ~read(found.buf[1], name, found.importedFile).ok
        THEN same @@ [ret |-> takeError(read(found.buf[1], name, found.importedFile))]
      ELSE readNamespaceFound(name, importLoc, realloc, phase, found)

\* SourceMgr::readNamespace: the new registry and the returned value
readNamespace(name, importLoc, realloc, phase) ==
  LET found == findFileInLoadPath(name)
      same  == [buffers |-> buffers, heap |-> heap, nsTable |-> nsTable,
                probed |-> found.probed]
  IN  IF found.buf = <<>>
        THEN same @@ [ret |-> LoadError(name, importLoc)]
        ELSE readNamespaceFound(name, importLoc, realloc, phase, found)

-----------------------------------------------------------------------------
(* Namespace loading as a state machine: the disk and the load path are   *)
(* the environment, readNamespace is the operation.                        *)

\* most readNamespace calls that find a file in one behaviour
MaxReads == 2

\* what the file at a path holds when it exists
ContentAt(p) ==
  IF p = <<"/", "x", "/", "a", "/", "b", "/", "c", ".", "s", "r", "n">>
    THEN <<"a", NL>>
  ELSE IF p = <<"/", "y", "/", "a", "/", "b", "/", "c", ".", "s", "r", "n">>
    THEN <<"(", "b", ")">>
  ELSE IF p = <<"/", "x", "/", "d", ".", "s", "r", "n">>
    THEN <<"1", " ", "b">>
  ELSE <<"b", " ", "(">>

SetLoadPaths(paths) ==
  /\ loadPaths' = paths
  /\ last' = [op |-> "env"]
  /\ UNCHANGED <<files, buffers, heap, nsTable, namespace, own, jit, reader>>

WriteFile(p) ==
  /\ files[p] = NoFile
  /\ files' = [files EXCEPT ![p] = ContentAt(p)]
  /\ last' = [op |-> "env"]
  /\ UNCHANGED <<loadPaths, buffers, heap, nsTable, namespace, own, jit, reader>>

RemoveFile(p) ==
  /\ files[p] # NoFile
  /\ files' = [files EXCEPT ![p] = NoFile]
  /\ last' = [op |-> "env"]
  /\ UNCHANGED <<loadPaths, buffers, heap, nsTable, namespace, own, jit, reader>>

ReadNamespace(name, importLoc, realloc, phase) ==
  /\ Len(buffers) < MaxReads
  /\ LET r == readNamespace(name, importLoc, realloc, phase)
     IN  /\ buffers' = r.buffers
         /\ heap' = r.heap
         /\ nsTable' = r.nsTable
         /\ last' = [op |-> "readNamespace", name |-> name, importLoc |-> importLoc,
                     probed |-> r.probed, ret |-> r.ret]
  /\ UNCHANGED <<loadPaths, files, namespace, own, jit, reader>>

NextNS ==
  \/ \E paths \in LoadPathLists : SetLoadPaths(paths)
  \/ \E p \in FilePaths : WriteFile(p)
  \/ \E p \in FilePaths : RemoveFile(p)
  \/ \E name \in Names, l \in ImportLocs, realloc \in BOOLEAN,
        phase \in CompilationPhases :
       ReadNamespace(name, l, realloc, phase)

SpecNS == Init /\ [][NextNS]_vars

-----------------------------------------------------------------------------
(* The line index on one arbitrary buffer *)

Alphabet == { "a", NL, "\r" }

RECURSIVE SeqsUpTo(_, _)
SeqsUpTo(S, n) ==
  IF n = 0 THEN { <<>> }
  ELSE LET shorter == SeqsUpTo(S, n - 1)
       IN  shorter \cup { Append(t, c) : t \in shorter, c \in S }

InitLines ==
  /\ loadPaths = <<>>
  /\ files = [p \in FilePaths |-> NoFile]
  /\ \E f \in SeqsUpTo(Alphabet, MaxLen) :
       buffers = <<SrcBuffer(f, UnknownLocation)>>
  /\ heap = <<>>
  /\ nsTable = <<>>
  /\ namespace = NoNamespace
  /\ own = NoNodes
  /\ jit = NoJIT
  /\ reader = NoReader
  /\ last = [op |-> "init"]

NextLines == \E lineNo \in 0..(MaxLen + 2) : LineLookup(1, lineNo)

SpecLines == InitLines /\ [][NextLines]_vars

-----------------------------------------------------------------------------
(* The element width of the cache at the type boundaries. A buffer of      *)
(* 2^32 bytes is kept as its size and the positions of its newlines; all   *)
(* its other bytes are something else.                                     *)

\* the buffer sizes on both sides of each boundary
WideSizes ==
  { Wide(MaxOf(8)), Wide(MaxOf(8) + 1), Wide(MaxOf(8) + 2),
    Wide(MaxOf(16)), Wide(MaxOf(16) + 1), Wide(MaxOf(16) + 2),
    <<MaxOf(16), MaxOf(16)>>, <<Pow2(16), 0>>, <<Pow2(16), 1>> }

\* where the newlines are: nowhere, the first byte, the last byte, or both
NewlineChoices(sz) ==
  { <<>>, << <<0, 0>> >>, << WidePred(sz) >>, << <<0, 0>>, WidePred(sz) >> }

\* the scan of GetOrCreateOffsetCache<T> over such a buffer
ScanNewlinesWide(newlines, w) ==
  [i \in 1..Len(newlines) |-> CastWide(newlines[i], w)]

\* GetOrCreateOffsetCache<T> over such a buffer
GetOrCreateOffsetCacheWide(w, offsetCache, buffer, h) ==
  IF offsetCache # 0
    THEN { [offsetCache |-> offsetCache, heap |-> h, offsets |-> o,
            built |-> FALSE, assertOk |-> TRUE] :
             o \in CacheRead(h, offsetCache) }
    ELSE LET offsets == ScanNewlinesWide(buffer.newlines, w)
             cell == [live |-> TRUE, width |-> w, offsets |-> offsets]
         IN  { [offsetCache |-> Len(h) + 1, heap |-> Append(h, cell),
                offsets |-> offsets, built |-> TRUE,
                assertOk |-> FitsWide(buffer.size, w)] }

\* bufStart + offsets[lineNo - 1] + 1, as an offset from bufStart
LinePointerWide(offsets, lineNo) ==
  LET ln == IF lineNo # 0 THEN lineNo - 1 ELSE lineNo
  IN  IF ln = 0 THEN Ptr(<<0, 0>>)
      ELSE IF ln > Len(offsets) THEN NullPtr
      ELSE Ptr(WideSucc(offsets[ln]))

\* SrcBuffer::getPointerForLineNumber over such a buffer
getPointerForLineNumberWide(b, h, lineNo) ==
  LET w == ElementWidthWide(b.buffer[1].size)
  IN  { [ret |-> LinePointerWide(c.offsets, lineNo), width |-> w,
         offsetCache |-> c.offsetCache, heap |-> c.heap, built |-> c.built,
         assertOk |-> c.assertOk] :
          c \in GetOrCreateOffsetCacheWide(w, b.offsetCache, b.buffer[1], h) }

\* ~SrcBuffer() over such a buffer: the cell is deleted as a vector of the
\* width the size selects
SrcBufferDestroyWide(b, h) ==
  IF b.offsetCache # 0
    THEN [h EXCEPT ![b.offsetCache] =
            [live |-> FALSE, width |-> @.width, offsets |-> @.offsets,
             deletedAs |-> DeleteWidth(b.buffer[1].size)]]
    ELSE h

InitWidth ==
  /\ loadPaths = <<>>
  /\ files = [p \in FilePaths |-> NoFile]
  /\ \E sz \in WideSizes : \E nl \in NewlineChoices(sz) :
       buffers = << SrcBuffer([size |-> sz, newlines |-> nl], UnknownLocation) >>
  /\ heap = <<>>
  /\ nsTable = <<>>
  /\ namespace = NoNamespace
  /\ own = NoNodes
  /\ jit = NoJIT
  /\ reader = NoReader
  /\ last = [op |-> "init"]

WideLookup(lineNo) ==
  /\ buffers # <<>>
  /\ \E o \in getPointerForLineNumberWide(buffers[1], heap, lineNo) :
       /\ buffers' = [buffers EXCEPT ![1].offsetCache = o.offsetCache]
       /\ heap' = o.heap
       /\ last' = [op |-> "getPointerForLineNumber", lineNo |-> lineNo,
                   size |-> buffers[1].buffer[1].size,
                   newlines |-> buffers[1].buffer[1].newlines,
                   width |-> o.width, assertOk |-> o.assertOk,
                   built |-> o.built, ret |-> o.ret]
  /\ UNCHANGED <<loadPaths, files, nsTable, namespace, own, jit, reader>>

WideDestroy ==
  /\ buffers # <<>>
  /\ heap' = SrcBufferDestroyWide(buffers[1], heap)
  /\ buffers' = <<>>
  /\ last' = [op |-> "~SrcBuffer", size |-> buffers[1].buffer[1].size,
              newlines |-> buffers[1].buffer[1].newlines,
              offsetCache |-> buffers[1].offsetCache]
  /\ UNCHANGED <<loadPaths, files, nsTable, namespace, own, jit, reader>>

NextWidth ==
  \/ \E lineNo \in 0..MaxLine : WideLookup(lineNo)
  \/ WideDestroy

SpecWidth == InitWidth /\ [][NextWidth]_vars

-----------------------------------------------------------------------------
(* The environments of one Namespace as a state machine *)

\* most environments of the namespace
MaxEnvs == 2

\* the bindings insert_symbol and define are called with; the value 0 is
\* the default-constructed value
Bindings == { <<"x", 0>>, <<"x", 1>>, <<"x", 2>>, <<"y", 1>> }
Keys == { b[1] : b \in Bindings }

\* the addresses of the namespace's environments
EnvAddrs == { namespace.environments[i].addr : i \in DOMAIN namespace.environments }

InitEnv ==
  /\ loadPaths = <<>>
  /\ files = [p \in FilePaths |-> NoFile]
  /\ buffers = <<>>
  /\ heap = <<>>
  /\ nsTable = <<>>
  /\ namespace = MakeNamespace(UnknownLocation, <<"d">>, <<>>)
  /\ own = NoNodes
  /\ jit = NoJIT
  /\ reader = NoReader
  /\ last = [op |-> "Namespace", root |-> namespace.environments[1].addr]

CreateEnv(parent) ==
  /\ Len(namespace.environments) < MaxEnvs
  /\ LET r == createEnv(namespace.environments, parent)
     IN  /\ namespace' = [namespace EXCEPT !.environments = r.environments]
         /\ last' = [op |-> "createEnv", parent |-> parent, ret |-> r.ret]
  /\ UNCHANGED <<loadPaths, files, buffers, heap, nsTable, own, jit, reader>>

GetRootEnv ==
  /\ LET r == getRootEnv(namespace.environments)
     IN  last' = [op |-> "getRootEnv", ret |-> r.ret, assertOk |-> r.assertOk]
  /\ UNCHANGED <<loadPaths, files, buffers, heap, nsTable, namespace, own, jit,
              reader>>

InsertSymbol(env, key, value) ==
  /\ LET r == insert_symbol(namespace.environments, env, key, value)
     IN  /\ namespace' = [namespace EXCEPT !.environments = r.environments]
         /\ last' = [op |-> "insert_symbol", env |-> env, key |-> key,
                     value |-> value, ret |-> r.ret]
  /\ UNCHANGED <<loadPaths, files, buffers, heap, nsTable, own, jit, reader>>

Lookup(env, key) ==
  /\ last' = [op |-> "lookup", env |-> env, key |-> key,
              ret |-> lookup(namespace.environments, env, key)]
  /\ UNCHANGED <<loadPaths, files, buffers, heap, nsTable, namespace, own, jit,
              reader>>

Define(name, node) ==
  /\ LET r == define(namespace.environments, name, node)
     IN  /\ namespace' = [namespace EXCEPT !.environments = r.environments]
         /\ last' = [op |-> "define", name |-> name, node |-> node,
                     ret |-> r.ret]
  /\ UNCHANGED <<loadPaths, files, buffers, heap, nsTable, own, jit, reader>>

NextEnv ==
  \/ \E parent \in {0} \cup EnvAddrs : CreateEnv(parent)
  \/ GetRootEnv
  \/ \E env \in EnvAddrs, b \in Bindings : InsertSymbol(env, b[1], b[2])
  \/ \E env \in EnvAddrs, key \in Keys : Lookup(env, key)
  \/ \E b \in Bindings : Define(b[1], b[2])

SpecEnv == InitEnv /\ [][NextEnv]_vars

-----------------------------------------------------------------------------
(* Who holds the ast nodes. A node is the address held by a unique_ptr    *)
(* (0 is the null pointer); own.n is a caller's Node handle, own.ast a     *)
(* caller's Ast, own.lists the List objects, namespace.tree the tree.      *)

\* most nodes made and most List objects constructed
MaxNodes == 3
MaxLists == 2

InitTree ==
  /\ loadPaths = <<>>
  /\ files = [p \in FilePaths |-> NoFile]
  /\ buffers = <<>>
  /\ heap = <<>>
  /\ nsTable = <<>>
  /\ namespace = MakeNamespace(UnknownLocation, <<"d">>, <<>>)
  /\ own = NoNodes
  /\ jit = NoJIT
  /\ reader = NoReader
  /\ last = [op |-> "Namespace"]

\* n = make<T>(...)
MakeNode ==
  /\ own.n = 0
  /\ own.made < MaxNodes
  /\ own' = [own EXCEPT !.n = own.made + 1, !.made = own.made + 1]
  /\ last' = [op |-> "make"]
  /\ UNCHANGED <<loadPaths, files, buffers, heap, nsTable, namespace, jit,
              reader>>

\* ast.push_back(std::move(n))
PushNode ==
  /\ own.n # 0
  /\ own' = [own EXCEPT !.ast = Append(own.ast, own.n), !.n = 0]
  /\ last' = [op |-> "push_back"]
  /\ UNCHANGED <<loadPaths, files, buffers, heap, nsTable, namespace, jit,
              reader>>

\* List(loc, ast)
NewList ==
  /\ Len(own.lists) < MaxLists
  /\ LET r == ListFromAst(own.ast)
     IN  own' = [own EXCEPT !.lists = Append(own.lists, [elements |-> r.elements]),
                            !.ast = r.v]
  /\ last' = [op |-> "List", given |-> own.ast]
  /\ UNCHANGED <<loadPaths, files, buffers, heap, nsTable, namespace, jit,
              reader>>

\* List(std::move(lists[l]))
MoveList(l) ==
  /\ Len(own.lists) < MaxLists
  /\ LET r == ListMove(own.lists[l])
     IN  own' = [own EXCEPT !.lists =
                   Append([own.lists EXCEPT ![l].elements = r.from],
                          [elements |-> r.elements])]
  /\ last' = [op |-> "ListMove", from |-> l, given |-> own.lists[l].elements]
  /\ UNCHANGED <<loadPaths, files, buffers, heap, nsTable, namespace, jit,
              reader>>

\* lists[l].append(n)
AppendNode(l) ==
  /\ own.n # 0
  /\ LET r == ListAppend(own.lists[l].elements, own.n)
     IN  own' = [own EXCEPT !.lists[l].elements = r.elements, !.n = r.n]
  /\ last' = [op |-> "append", to |-> l, given |-> own.n]
  /\ UNCHANGED <<loadPaths, files, buffers, heap, nsTable, namespace, jit,
              reader>>

\* ns.ExpandTree(ast) under the compilation phase of the engine's options
Expand(phase) ==
  /\ LET r == ExpandTree(namespace.tree, own.ast, phase)
     IN  /\ namespace' = [namespace EXCEPT !.tree = r.tree]
         /\ own' = [own EXCEPT !.ast = r.ast]
         /\ last' = [op |-> "ExpandTree", phase |-> phase, given |-> own.ast,
                     ret |-> r.err]
  /\ UNCHANGED <<loadPaths, files, buffers, heap, nsTable, jit, reader>>

NextTree ==
  \/ MakeNode
  \/ PushNode
  \/ NewList
  \/ \E l \in DOMAIN own.lists : MoveList(l)
  \/ \E l \in DOMAIN own.lists : AppendNode(l)
  \/ \E phase \in CompilationPhases : Expand(phase)

SpecTree == InitTree /\ [][NextTree]_vars

-----------------------------------------------------------------------------
(* Errors: the kinds, their default messages, and what is displayed *)

\* enum class Type, in its order
ErrorTypes ==
  << "NSLoadError", "NSAddToSMError", "InvalidDigitForNumber",
     "TwoFloatPoints", "InvalidCharacterForSymbol", "EOFWhileScaningAList",
     "FINALERROR" >>

\* errorMessages[]: one slot for each kind; the slot of FINALERROR has no
\* initialiser and is the empty string
errorMessages ==
  << "Faild to load the namespace",
     "Faild to add the namespace to the source manager",
     "Invalid number format",
     "Invalid float number format",
     "Invalid symbol format",
     "Reached the end of the file while scanning for a list",
     "" >>

\* static_cast<int>(type) + 1, the position of a kind in the enum
TypeIndex(type) == CHOOSE i \in DOMAIN ErrorTypes : ErrorTypes[i] = type

\* Error(Type errtype, const LocationRange &loc): msg stays empty
Error(errtype, loc) == [type |-> errtype, location |-> loc, msg |-> ""]

\* Error(Type errtype, const LocationRange &loc, llvm::StringRef msg)
ErrorWithMsg(errtype, loc, msg) == [type |-> errtype, location |-> loc, msg |-> msg]

\* Error::log: os << msg
log(e) == e.msg

\* errors::getMessage: os << e, which calls log
getMessage(e) == log(e)

\* the override messages errors are made with
OverrideMsgs ==
  { "Couldn't find namespace 'd'", "Couldn't find namespace 'a.b.c'",
    "Couldn't add namespace 'd'" }

\* errors::make(t, loc)
MakeError(t, loc) ==
  /\ last' = [op |-> "make", error |-> Error(t, loc), override |-> <<>>]
  /\ UNCHANGED <<loadPaths, files, buffers, heap, nsTable, namespace, own, jit,
              reader>>

\* errors::make(t, loc, msg)
MakeErrorWithMsg(t, loc, msg) ==
  /\ last' = [op |-> "make", error |-> ErrorWithMsg(t, loc, msg),
              override |-> <<msg>>]
  /\ UNCHANGED <<loadPaths, files, buffers, heap, nsTable, namespace, own, jit,
              reader>>

\* getMessage(e) on the error made last
GetMessage ==
  /\ last.op = "make"
  /\ last' = [op |-> "getMessage", error |-> last.error,
              override |-> last.override, ret |-> getMessage(last.error)]
  /\ UNCHANGED <<loadPaths, files, buffers, heap, nsTable, namespace, own, jit,
              reader>>

NextErr ==
  \/ \E i \in DOMAIN ErrorTypes, loc \in ImportLocs : MakeError(ErrorTypes[i], loc)
  \/ \E i \in DOMAIN ErrorTypes, loc \in ImportLocs, msg \in OverrideMsgs :
       MakeErrorWithMsg(ErrorTypes[i], loc, msg)
  \/ GetMessage

SpecErr == Init /\ [][NextErr]_vars

-----------------------------------------------------------------------------
(* Symbols: every lexeme up to a length, in two current namespaces *)

\* longest symbol lexeme
MaxLexeme == 4

SymbolChars == { "a", "b", "/" }
Lexemes == SeqsUpTo(SymbolChars, MaxLexeme) \ { <<>> }
CurrentNamespaces == { <<"a">>, <<"u", "s">> }

\* make<Symbol>(loc, name, currentNS)
MakeSymbol(name, currentNS) ==
  /\ last' = [op |-> "Symbol", lexeme |-> name, currentNS |-> currentNS,
              node |-> SymbolNode(UnknownLocation, name, currentNS)]
  /\ UNCHANGED <<loadPaths, files, buffers, heap, nsTable, namespace, own, jit,
              reader>>

NextSym == \E name \in Lexemes, currentNS \in CurrentNamespaces :
             MakeSymbol(name, currentNS)

SpecSym == Init /\ [][NextSym]_vars

-----------------------------------------------------------------------------
(* The variants of Expression: construction, copy construction, type id   *)
(* and classof. heap holds the node objects made so far; a node's kind is  *)
(* the class it was constructed as, getType what its virtual getType()     *)
(* returns.                                                                  *)

\* most node objects alive
MaxObjects == 2

\* the location ranges nodes are made with
LocationRanges ==
  { [start |-> UnknownLocation, end |-> UnknownLocation],
    [start |-> [known |-> TRUE, line |-> 1, col |-> 1],
     end |-> [known |-> TRUE, line |-> 1, col |-> 2]] }

\* Number::Number(loc, n, neg, fl)
NumberNode(loc, n, neg, fl) ==
  [kind |-> "Number", location |-> loc, value |-> n, isNeg |-> neg,
   isFloat |-> fl]

\* String::String(loc, v)
StringNode(loc, v) == [kind |-> "String", location |-> loc, data |-> v]

\* Keyword::Keyword(loc, name)
KeywordNode(loc, name) == [kind |-> "Keyword", location |-> loc, name |-> name]

\* Error::Error(loc, tag, msg): tag is a unique_ptr<Keyword>
ErrorNode(loc, tag, msg) ==
  [kind |-> "Error", location |-> loc, msg |-> msg, tag |-> tag]

\* List::List(loc)
ListNode(loc) == [kind |-> "List", location |-> loc, elements |-> <<>>]

\* Namespace::Namespace(loc, name)
NamespaceNode(loc, name) ==
  [kind |-> "Namespace"] @@ MakeNamespace(loc, name, <<>>)

\* the nodes the constructors are called for
MadeNodes ==
  UNION { { SymbolNode(loc, <<"a">>, <<"d">>), StringNode(loc, <<"a">>),
            KeywordNode(loc, <<"a">>), ListNode(loc),
            NamespaceNode(loc, <<"d">>),
            ErrorNode(loc, <<KeywordNode(loc, <<"a">>)>>, <<"b">>) }
          \cup { NumberNode(loc, <<"1">>, neg, fl) : neg, fl \in BOOLEAN } :
          loc \in LocationRanges }

\* T::getType() of each class
getType(node) ==
  CASE node.kind = "Symbol" -> "SYMBOL"
    [] node.kind = "Number" -> "NUMBER"
    [] node.kind = "List" -> "LIST"
    [] node.kind = "String" -> "STRING"
    [] node.kind = "Keyword" -> "KEYWORD"
    [] node.kind = "Error" -> "KEYWORD"
    [] node.kind = "Namespace" -> "NS"

\* T::classof(e): e->getType() == the id T tests for
classof(variant, e) ==
  getType(e) = CASE variant = "Symbol" -> "SYMBOL"
                 [] variant = "Number" -> "NUMBER"
                 [] variant = "List" -> "LIST"
                 [] variant = "String" -> "STRING"
                 [] variant = "Keyword" -> "KEYWORD"
                 [] variant = "Error" -> "KEYWORD"
                 [] variant = "Namespace" -> "NS"

\* T::T(T &): the copies the constructor can make and what is left of the
\* original. Number's copy constructor initialises value only: isNeg and
\* isFloat of the copy are indeterminate. Error's moves the tag out of the
\* original.
CopyConstruct(e) ==
  CASE e.kind = "Symbol" ->
         { [copy |-> [kind |-> "Symbol", location |-> e.location,
                      nsName |-> e.nsName, name |-> e.name],
            from |-> e] }
    [] e.kind = "Number" ->
         { [copy |-> [kind |-> "Number", location |-> e.location,
                      value |-> e.value, isNeg |-> neg, isFloat |-> fl],
            from |-> e] : neg, fl \in BOOLEAN }
    [] e.kind = "String" ->
         { [copy |-> [kind |-> "String", location |-> e.location,
                      data |-> e.data],
            from |-> e] }
    [] e.kind = "Keyword" ->
         { [copy |-> [kind |-> "Keyword", location |-> e.location,
                      name |-> e.name],
            from |-> e] }
    [] e.kind = "Error" ->
         { [copy |-> [kind |-> "Error", location |-> e.location,
                      msg |-> e.msg, tag |-> e.tag],
            from |-> [e EXCEPT !.tag = <<>>]] }

InitAst ==
  /\ loadPaths = <<>>
  /\ files = [p \in FilePaths |-> NoFile]
  /\ buffers = <<>>
  /\ heap = <<>>
  /\ nsTable = <<>>
  /\ namespace = NoNamespace
  /\ own = NoNodes
  /\ jit = NoJIT
  /\ reader = NoReader
  /\ last = [op |-> "none"]

\* T(args...)
Construct(node) ==
  /\ Len(heap) < MaxObjects
  /\ heap' = Append(heap, node)
  /\ last' = [op |-> "construct", node |-> node]
  /\ UNCHANGED <<loadPaths, files, buffers, nsTable, namespace, own, jit,
              reader>>

\* T copy(heap[i])
Copy(i) ==
  /\ Len(heap) < MaxObjects
  /\ heap[i].kind \in { "Symbol", "Number", "String", "Keyword", "Error" }
  /\ \E r \in CopyConstruct(heap[i]) :
       heap' = Append([heap EXCEPT ![i] = r.from], r.copy)
  /\ last' = [op |-> "copy", from |-> i]
  /\ UNCHANGED <<loadPaths, files, buffers, nsTable, namespace, own, jit,
              reader>>

\* heap[i].getType()
GetType(i) ==
  /\ last' = [op |-> "getType", node |-> i, ret |-> getType(heap[i])]
  /\ UNCHANGED <<loadPaths, files, buffers, heap, nsTable, namespace, own, jit,
              reader>>

\* T::classof(&heap[i])
Classof(variant, i) ==
  /\ last' = [op |-> "classof", variant |-> variant, node |-> i,
              ret |-> classof(variant, heap[i])]
  /\ UNCHANGED <<loadPaths, files, buffers, heap, nsTable, namespace, own, jit,
              reader>>

NextAst ==
  \/ \E node \in MadeNodes : Construct(node)
  \/ \E i \in DOMAIN heap : Copy(i)
  \/ \E i \in DOMAIN heap : GetType(i)
  \/ \E variant \in { "Symbol", "Number", "List", "String", "Keyword", "Error",
                      "Namespace" },
        i \in DOMAIN heap : Classof(variant, i)

SpecAst == InitAst /\ [][NextAst]_vars

-----------------------------------------------------------------------------
(* The Reader object: the bytes consumed so far and the current location. *)
(* currentPos is the number of bytes consumed; currentLocation is the      *)
(* location of the byte to consume next.                                    *)

\* longest input given to a Reader
MaxInput == 4

ReaderInputs == SeqsUpTo({ "a", "1", "-", "(", ")", NL }, MaxInput)

\* an incLocation that does not start a new column count on a newline
incLocationNoReset(loc, c) ==
  IF c = NL THEN [loc EXCEPT !.line = (@ + 1) % (2^16), !.col = (@ + 1) % (2^16)]
  ELSE [loc EXCEPT !.col = (@ + 1) % (2^16)]

\* incLocation(loc, c): after consuming c the column advances by one; on a
\* newline the line advances and the column is reset to 1. line and col
\* are unsigned short.
incLocation(loc, c) ==
  IF c = NL THEN [loc EXCEPT !.line = (@ + 1) % (2^16), !.col = 1]
  ELSE [loc EXCEPT !.col = (@ + 1) % (2^16)]

\* Reader::Reader(buf, ns, filename): nothing consumed, at line 1 column 1
Reader(buf) ==
  [buf |-> buf, currentPos |-> 0,
   currentLocation |-> [known |-> TRUE, line |-> 1, col |-> 1]]

\* Reader::advanceByOne: consume the next byte
advanceByOne(r) ==
  [r EXCEPT !.currentPos = @ + 1,
            !.currentLocation = incLocation(@, r.buf[r.currentPos + 1])]

RECURSIVE advanceUntil(_, _)
advanceUntil(r, pos) ==
  IF r.currentPos >= pos THEN r ELSE advanceUntil(advanceByOne(r), pos)

\* Reader::advance(skipWhitespace): consume one byte, after the leading
\* whitespace when skipWhitespace is set; stops at the end of the buffer
advance(r, skipWhitespace) ==
  LET q == IF skipWhitespace
             THEN SkipWhile(r.buf, r.currentPos + 1, "whitespace")
             ELSE r.currentPos + 1
  IN  advanceUntil(r, IF q > Len(r.buf) THEN Len(r.buf) ELSE q)

\* Reader::nextChar(skipWhitespace, count): the byte count places ahead,
\* <<>> past the end of the buffer; consumes nothing
nextChar(r, skipWhitespace, count) ==
  LET q == IF skipWhitespace
             THEN SkipWhile(r.buf, r.currentPos + 1, "whitespace")
             ELSE r.currentPos + 1
      at == q + count - 1
  IN  IF at <= Len(r.buf) THEN <<r.buf[at]>> ELSE <<>>

InitReader ==
  /\ loadPaths = <<>>
  /\ files = [p \in FilePaths |-> NoFile]
  /\ buffers = <<>>
  /\ heap = <<>>
  /\ nsTable = <<>>
  /\ namespace = NoNamespace
  /\ own = NoNodes
  /\ jit = NoJIT
  /\ \E buf \in ReaderInputs : reader = Reader(buf)
  /\ last = [op |-> "Reader"]

AdvanceByOne ==
  /\ reader.currentPos < Len(reader.buf)
  /\ reader' = advanceByOne(reader)
  /\ last' = [op |-> "advanceByOne"]
  /\ UNCHANGED <<loadPaths, files, buffers, heap, nsTable, namespace, own, jit>>

Advance(skipWhitespace) ==
  /\ reader.currentPos < Len(reader.buf)
  /\ reader' = advance(reader, skipWhitespace)
  /\ last' = [op |-> "advance", skipWhitespace |-> skipWhitespace]
  /\ UNCHANGED <<loadPaths, files, buffers, heap, nsTable, namespace, own, jit>>

NextChar(skipWhitespace, count) ==
  /\ last' = [op |-> "nextChar", skipWhitespace |-> skipWhitespace,
              count |-> count,
              ret |-> nextChar(reader, skipWhitespace, count)]
  /\ UNCHANGED <<loadPaths, files, buffers, heap, nsTable, namespace, own, jit,
                 reader>>

\* serene::read(reader.buf, ns, filename) on a reader of its own
Read(ns) ==
  /\ last' = [op |-> "read", ns |-> ns, ret |-> read(reader.buf, ns, <<>>)]
  /\ UNCHANGED <<loadPaths, files, buffers, heap, nsTable, namespace, own, jit,
                 reader>>

NextReader ==
  \/ AdvanceByOne
  \/ \E skipWhitespace \in BOOLEAN : Advance(skipWhitespace)
  \/ \E skipWhitespace \in BOOLEAN, count \in 1..2 :
       NextChar(skipWhitespace, count)
  \/ Read(<<"d">>)

SpecReader == InitReader /\ [][NextReader]_vars

-----------------------------------------------------------------------------
(* The JIT: its options, object cache, load paths and JITDylib stacks.    *)
(* cache is the unique_ptr to the ObjectCache (<<>> when null, else        *)
(* <<cachedObjects>>); a JITDylib is known by its address.                 *)

\* the Options a JIT is made with, as far as the JIT reads them
OptionsSet == [JITenableObjectCache : BOOLEAN]

\* JIT::JIT: the cache exists when the options enable it
JIT(opts) ==
  [options |-> opts,
   cache |-> IF opts.JITenableObjectCache THEN << <<>> >> ELSE <<>>,
   loadPaths |-> <<>>,
   jitDylibs |-> <<>>]

\* a setLoadPaths that adds the directories to the ones set before
JITsetLoadPathsAdds(paths, dirs) == [loadPaths |-> paths \o dirs, dirs |-> <<>>]

\* JIT::setLoadPaths: loadPaths.swap(dirs); the load paths and what is
\* left in the caller's vector
JITsetLoadPaths(paths, dirs) == [loadPaths |-> dirs, dirs |-> paths]

\* JIT::getLoadPaths
JITgetLoadPaths(paths) == paths

\* llvm::StringMap::count
StringMapCount(map, key) == IF key \in DOMAIN map THEN 1 ELSE 0

\* JIT::getLatestJITDylib; 0 is nullptr
getLatestJITDylib(jitDylibs, nsName) ==
  IF StringMapCount(jitDylibs, nsName) = 0 THEN 0
  ELSE LET vec == jitDylibs[nsName]
       IN  IF vec = <<>> THEN 0 ELSE vec[Len(vec)]

\* a pushJITDylib that pushes on its copy of the vector and drops it
pushJITDylibOnCopy(jitDylibs, nsName, l) ==
  IF StringMapCount(jitDylibs, nsName) = 0
    THEN (nsName :> <<l>>) @@ jitDylibs
    ELSE jitDylibs

\* JIT::pushJITDylib: the map afterwards
pushJITDylib(jitDylibs, nsName, l) ==
  IF StringMapCount(jitDylibs, nsName) = 0
    THEN (nsName :> <<l>>) @@ jitDylibs
    ELSE LET vec == Append(jitDylibs[nsName], l)
         IN  [jitDylibs EXCEPT ![nsName] = vec]

\* JIT::getNumberOfJITDylibs
getNumberOfJITDylibs(jitDylibs, nsName) ==
  IF StringMapCount(jitDylibs, nsName) = 0 THEN 0 ELSE Len(jitDylibs[nsName])

\* most pushJITDylib calls in one behaviour
MaxPushes == 3

RECURSIVE TotalLen(_, _)
\* the number of elements in the vectors of a map, over the given keys
TotalLen(map, keys) ==
  IF keys = {} THEN 0
  ELSE LET k == CHOOSE x \in keys : TRUE
       IN  Len(map[k]) + TotalLen(map, keys \ {k})

InitJIT ==
  /\ loadPaths = <<>>
  /\ files = [p \in FilePaths |-> NoFile]
  /\ buffers = <<>>
  /\ heap = <<>>
  /\ nsTable = <<>>
  /\ namespace = NoNamespace
  /\ own = NoNodes
  /\ \E opts \in OptionsSet : jit = JIT(opts)
  /\ reader = NoReader
  /\ last = [op |-> "JIT"]

JITSetLoadPaths(dirs) ==
  /\ LET r == JITsetLoadPaths(jit.loadPaths, dirs)
     IN  /\ jit' = [jit EXCEPT !.loadPaths = r.loadPaths]
         /\ last' = [op |-> "setLoadPaths", given |-> dirs, dirs |-> r.dirs]
  /\ UNCHANGED <<loadPaths, files, buffers, heap, nsTable, namespace, own,
              reader>>

JITGetLoadPaths ==
  /\ last' = [op |-> "getLoadPaths", ret |-> JITgetLoadPaths(jit.loadPaths)]
  /\ UNCHANGED <<loadPaths, files, buffers, heap, nsTable, namespace, own, jit,
              reader>>

PushJITDylib(nsName, l) ==
  /\ TotalLen(jit.jitDylibs, DOMAIN jit.jitDylibs) < MaxPushes
  /\ jit' = [jit EXCEPT !.jitDylibs = pushJITDylib(jit.jitDylibs, nsName, l)]
  /\ last' = [op |-> "pushJITDylib", nsName |-> nsName, l |-> l]
  /\ UNCHANGED <<loadPaths, files, buffers, heap, nsTable, namespace, own,
              reader>>

GetLatestJITDylib(nsName) ==
  /\ last' = [op |-> "getLatestJITDylib", nsName |-> nsName,
              ret |-> getLatestJITDylib(jit.jitDylibs, nsName)]
  /\ UNCHANGED <<loadPaths, files, buffers, heap, nsTable, namespace, own, jit,
              reader>>

GetNumberOfJITDylibs(nsName) ==
  /\ last' = [op |-> "getNumberOfJITDylibs", nsName |-> nsName,
              ret |-> getNumberOfJITDylibs(jit.jitDylibs, nsName)]
  /\ UNCHANGED <<loadPaths, files, buffers, heap, nsTable, namespace, own, jit,
              reader>>

NextJIT ==
  \/ \E dirs \in LoadPathLists : JITSetLoadPaths(dirs)
  \/ JITGetLoadPaths
  \/ \E nsName \in Names, l \in { 1, 2 } : PushJITDylib(nsName, l)
  \/ \E nsName \in Names : GetLatestJITDylib(nsName)
  \/ \E nsName \in Names : GetNumberOfJITDylibs(nsName)

SpecJIT == InitJIT /\ [][NextJIT]_vars

-----------------------------------------------------------------------------
(* The object cache of the JIT *)

\* ObjectCache::notifyObjectCompiled: cachedObjects[id] = copy of objBuffer
notifyObjectCompiled(cachedObjects, m, objBuffer) ==
  (m :> objBuffer) @@ cachedObjects

\* ObjectCache::getObject: <<object>>, or <<>> for nullptr
getObject(cachedObjects, m) ==
  IF m \in DOMAIN cachedObjects THEN <<cachedObjects[m]>> ELSE <<>>

\* ObjectCache::dumpToObjectFile: the outcomes ("crash" and "garbage" are
\* what dereferencing a null or end pointer can do). When the file cannot be
\* opened nothing is written and the assertion is not reached; a failed
\* assertion aborts, or, compiled out, the object at begin() is written.
ObjectCacheDump(cachedObjects, openOk) ==
  IF ~openOk
    THEN { [opened |-> FALSE, assertOk |-> TRUE, written |-> "nothing"] }
  ELSE IF Cardinality(DOMAIN cachedObjects) = 1
    THEN { [opened |-> TRUE, assertOk |-> TRUE, written |-> cachedObjects[m]] :
             m \in DOMAIN cachedObjects }
  ELSE { [opened |-> TRUE, assertOk |-> FALSE, written |-> "abort"] }
         \cup { [opened |-> TRUE, assertOk |-> FALSE, written |-> cachedObjects[m]] :
                  m \in DOMAIN cachedObjects }
         \cup (IF cachedObjects = <<>>
                 THEN { [opened |-> TRUE, assertOk |-> FALSE, written |-> u] :
                          u \in { "crash", "garbage" } }
                 ELSE {})

\* JIT::dumpToObjectFile: cache->dumpToObjectFile(filename)
JITdumpToObjectFile(cache, openOk) ==
  IF cache = <<>>
    THEN { [cacheExists |-> FALSE, opened |-> FALSE, assertOk |-> FALSE,
            written |-> u] : u \in { "crash", "garbage" } }
    ELSE { [cacheExists |-> TRUE] @@ o : o \in ObjectCacheDump(cache[1], openOk) }

NotifyObjectCompiled(m, objBuffer) ==
  /\ jit.cache # <<>>
  /\ jit' = [jit EXCEPT !.cache[1] = notifyObjectCompiled(@, m, objBuffer)]
  /\ last' = [op |-> "notifyObjectCompiled", m |-> m, objBuffer |-> objBuffer]
  /\ UNCHANGED <<loadPaths, files, buffers, heap, nsTable, namespace, own,
              reader>>

GetObject(m) ==
  /\ jit.cache # <<>>
  /\ last' = [op |-> "getObject", m |-> m, ret |-> getObject(jit.cache[1], m)]
  /\ UNCHANGED <<loadPaths, files, buffers, heap, nsTable, namespace, own, jit,
              reader>>

DumpToObjectFile(openOk) ==
  /\ \E o \in JITdumpToObjectFile(jit.cache, openOk) :
       last' = [op |-> "dumpToObjectFile"] @@ o
  /\ UNCHANGED <<loadPaths, files, buffers, heap, nsTable, namespace, own, jit,
              reader>>

NextCache ==
  \/ \E m \in { "m1", "m2" }, objBuffer \in { "o1", "o2", "o3" } :
       NotifyObjectCompiled(m, objBuffer)
  \/ \E m \in { "m1", "m2" } : GetObject(m)
  \/ \E openOk \in BOOLEAN : DumpToObjectFile(openOk)

SpecCache == InitJIT /\ [][NextCache]_vars

-----------------------------------------------------------------------------
(* Properties of the buffer registry *)

Bytes(i) == buffers[i].buffer[1]
HasCache(i) == buffers[i].offsetCache # 0
CacheCell(i) == heap[buffers[i].offsetCache]

\* the positions (1-based) of the '\n' bytes of s
NewlinePositions(s) == { j \in 1..Len(s) : s[j] = NL }

LookupDone(l) == l.op = "getPointerForLineNumber"

AddStep == last'.op = "AddNewSourceBuffer" /\ buffers' # buffers
LookupStep == last'.op = "getPointerForLineNumber"

\* C1: the k-th AddNewSourceBuffer call returns id k (never 0, one more than
\* the call before, never an id handed out earlier), and every id handed out
\* earlier keeps naming the same bytes and the same import location.
C1_BufferIdsMonotonic ==
  [][ /\ Len(buffers') >= Len(buffers)
      /\ \A i \in 1..Len(buffers) :
           /\ buffers'[i].buffer = buffers[i].buffer
           /\ buffers'[i].importLoc = buffers[i].importLoc
      /\ AddStep =>
           /\ Len(buffers') = Len(buffers) + 1
           /\ last'.ret = Len(buffers) + 1
           /\ last'.ret # 0
           /\ last'.ret \notin 1..Len(buffers) ]_vars

C1_Witness ==
  /\ last.op = "AddNewSourceBuffer"
  /\ last.ret = 2
  /\ last.moved
  /\ buffers[1].buffer # buffers[2].buffer
  /\ buffers[1].importLoc # buffers[2].importLoc

\* C2: isValidBufferID(id) answers true exactly for 1 <= id <= number of
\* buffers; 0 is never valid; an id that is valid stays valid.
C2_ValidIffInRange ==
  [][ /\ last'.op = "isValidBufferID" =>
           last'.ret = (1 <= last'.id /\ last'.id <= Len(buffers'))
      /\ ~isValidBufferID(0)'
      /\ \A i \in 0..(MaxBuffers + 1) : isValidBufferID(i) => isValidBufferID(i)' ]_vars

C2_Witness ==
  /\ last.op = "isValidBufferID"
  /\ last.id = Len(buffers)
  /\ last.ret
  /\ Len(buffers) >= 2

\* C8: getPointerForLineNumber(L) is bufferStart for L in {0, 1}, the byte
\* right after the (L-1)-th '\n' for 2 <= L <= newlines + 1, null when
\* L - 1 exceeds the number of newlines; a non-null result lies within
\* bufferStart .. bufferStart + size.
C8_LineIndexCorrect ==
  LookupDone(last) =>
    LET s == Bytes(last.id)
        L == last.lineNo
        r == last.ret
        nls == Cardinality(NewlinePositions(s))
    IN  /\ L <= 1 => r = Ptr(0)
        /\ (2 <= L /\ L <= nls + 1) =>
             /\ ~r.null
             /\ r.off \in NewlinePositions(s)
             /\ Cardinality({ j \in NewlinePositions(s) : j <= r.off }) = L - 1
        /\ L - 1 > nls => r.null
        /\ ~r.null => (0 <= r.off /\ r.off <= Len(s))

C8_Witness ==
  /\ last.op = "getPointerForLineNumber"
  /\ last.lineNo = 3
  /\ ~last.ret.null
  /\ last.ret.off = Len(Bytes(1))
  /\ Len(Bytes(1)) = MaxLen

\* C9: an offset cache that exists holds exactly the offsets of the '\n'
\* bytes of its buffer, one entry each, in increasing order.
C9_CacheIsNewlineOffsets ==
  \A i \in 1..Len(buffers) :
    HasCache(i) =>
      LET c == CacheCell(i).offsets
      IN  /\ CacheCell(i).live
          /\ Len(c) = Cardinality(NewlinePositions(Bytes(i)))
          /\ { c[k] + 1 : k \in 1..Len(c) } = NewlinePositions(Bytes(i))
          /\ \A k \in 1..(Len(c) - 1) : c[k] < c[k + 1]

C9_Witness ==
  /\ HasCache(1)
  /\ Len(CacheCell(1).offsets) = 2
  /\ Cardinality({ j \in 1..Len(Bytes(1)) : Bytes(1)[j] = "\r" }) >= 1

\* C10: a buffer has no offset cache until the first line lookup on it; that
\* lookup builds it; afterwards it is never rebuilt, freed or changed, also
\* when AddNewSourceBuffer moves the buffers, and a lookup on a buffer that
\* has a cache answers from that cache.
C10_CacheBuiltOnceAndKept ==
  [][ /\ \A i \in 1..Len(buffers) :
           /\ (~HasCache(i) /\ HasCache(i)') =>
                (LookupStep /\ last'.id = i /\ last'.built)
           /\ HasCache(i) =>
                /\ HasCache(i)'
                /\ CacheCell(i)'.live
                /\ CacheCell(i)' = CacheCell(i)
                /\ (LookupStep /\ last'.id = i) =>
                     /\ ~last'.built
                     /\ last'.ret = LinePointer(CacheCell(i).offsets, last'.lineNo)
           /\ (~HasCache(i) /\ LookupStep /\ last'.id = i) =>
                (HasCache(i)' /\ last'.built)
      /\ AddStep => buffers'[Len(buffers')].offsetCache = 0 ]_vars

C10_Witness ==
  /\ last.op = "AddNewSourceBuffer"
  /\ last.moved
  /\ Len(buffers) = 3
  /\ HasCache(1) /\ HasCache(2) /\ ~HasCache(3)
  /\ buffers[1].offsetCache = 2
  /\ CacheCell(1).live /\ CacheCell(2).live

-----------------------------------------------------------------------------
(* Properties of namespace resolution *)

\* the path the documentation gives for a namespace under a directory,
\* written position by position
DocumentedPath(dir, name) ==
  LET n == Len(dir)
      m == Len(name)
  IN  [k \in 1..(n + 1 + m + 1 + Len(DEFAULT_SUFFIX)) |->
         IF k <= n THEN dir[k]
         ELSE IF k = n + 1 THEN "/"
         ELSE IF k <= n + 1 + m
           THEN (IF name[k - n - 1] = "." THEN "/" ELSE name[k - n - 1])
         ELSE IF k = n + m + 2 THEN "."
         ELSE DEFAULT_SUFFIX[k - n - m - 2]]

Readable(i, name) ==
  LET p == DocumentedPath(loadPaths[i], name)
  IN  p \in DOMAIN files /\ files[p] # NoFile

\* the load-path indexes under which the namespace can be read
Hits(name) == { i \in 1..Len(loadPaths) : Readable(i, name) }
FirstHit(name) == CHOOSE i \in Hits(name) : \A j \in Hits(name) : i <= j

ReadDone == last.op = "readNamespace"
ReadStep == last'.op = "readNamespace"

\* C3: a readNamespace call that finds a file maps the name to the id it
\* allocates, which is greater than every earlier id; the buffers loaded
\* before stay under their ids; no other name's mapping changes; and no
\* other step touches the index.
C3_IndexLatestWins ==
  [][ /\ (ReadStep /\ Hits(last'.name) # {}) =>
           /\ Len(buffers') = Len(buffers) + 1
           /\ last'.name \in DOMAIN nsTable'
           /\ nsTable'[last'.name] = Len(buffers')
           /\ \A n \in DOMAIN nsTable : nsTable'[last'.name] > nsTable[n]
           /\ \A i \in 1..Len(buffers) : buffers'[i] = buffers[i]
           /\ \A n \in Names \ {last'.name} :
                /\ (n \in DOMAIN nsTable') = (n \in DOMAIN nsTable)
                /\ n \in DOMAIN nsTable => nsTable'[n] = nsTable[n]
      /\ ~(ReadStep /\ Hits(last'.name) # {}) => nsTable' = nsTable ]_vars

C3_Witness ==
  /\ ReadDone
  /\ last.ret.ok
  /\ Len(buffers) = 2
  /\ DOMAIN nsTable = {last.name}
  /\ nsTable[last.name] = 2
  /\ buffers[1].buffer # buffers[2].buffer

\* C4: when no load-path directory has a readable file for the name,
\* readNamespace returns NSLoadError located at the import location and
\* changes neither the buffers nor the namespace index.
C4_MissIsLoadError ==
  [][ (ReadStep /\ Hits(last'.name) = {}) =>
        /\ ~last'.ret.ok
        /\ last'.ret.type = "NSLoadError"
        /\ last'.ret.location = last'.importLoc
        /\ buffers' = buffers
        /\ heap' = heap
        /\ nsTable' = nsTable ]_vars

C4_Witness ==
  /\ ReadDone
  /\ ~last.ret.ok
  /\ last.ret.type = "NSLoadError"
  /\ last.importLoc.known
  /\ Len(loadPaths) = 2
  /\ Len(buffers) = 1
  /\ last.name \in DOMAIN nsTable

\* C5: findFileInLoadPath probes the directories in declared order up to
\* the first one whose file can be read and no further, and returns the
\* bytes and the full path of that first one.
C5_LoadPathPrecedence ==
  (ReadDone /\ Hits(last.name) # {}) =>
    LET first == FirstHit(last.name)
        path  == DocumentedPath(loadPaths[first], last.name)
    IN  /\ Len(last.probed) = first
        /\ \A k \in 1..first :
             last.probed[k] = DocumentedPath(loadPaths[k], last.name)
        /\ buffers[Len(buffers)].buffer = <<files[path]>>
        /\ last.ret.ok => last.ret.ns.filename = path

C5_Witness ==
  /\ ReadDone
  /\ last.ret.ok
  /\ Cardinality(Hits(last.name)) = 2
  /\ loadPaths[1] # loadPaths[2]
  /\ Len(last.probed) = 1

\* C6: a failed read of one directory does not end the search: the call
\* reports that nothing was found exactly when the read fails for every
\* directory of the load path (also when the load path is empty), and
\* then every directory was tried.
C6_ErrorsConsumed ==
  ReadDone =>
    /\ (~last.ret.ok /\ last.ret.type = "NSLoadError") <=> (Hits(last.name) = {})
    /\ Hits(last.name) = {} => Len(last.probed) = Len(loadPaths)
    /\ \A k \in 1..Len(last.probed) :
         k < Len(last.probed) => ~Readable(k, last.name)

C6_Witness ==
  /\ ReadDone
  /\ last.ret.ok
  /\ Len(last.probed) = 2
  /\ Hits(last.name) = {2}

\* C7: every probed path is dir + separator + the name with every '.'
\* replaced by the separator + '.' + DEFAULT_SUFFIX; convertNamespaceToPath
\* replaces every '.' and appends nothing, so a.b.c under /x is
\* /x/a/b/c.<DEFAULT_SUFFIX>.
C7_ProbedPathForm ==
  /\ \A n \in Names :
       LET c == convertNamespaceToPath(n)
       IN  /\ Len(c) = Len(n)
           /\ \A j \in 1..Len(n) : c[j] = (IF n[j] = "." THEN "/" ELSE n[j])
  /\ ReadDone =>
       /\ \A k \in 1..Len(last.probed) :
            last.probed[k] = DocumentedPath(loadPaths[k], last.name)
       /\ (last.name = <<"a", ".", "b", ".", "c">> /\ last.probed # <<>>
             /\ loadPaths[1] = <<"/", "x">>) =>
            last.probed[1] = <<"/", "x", "/", "a", "/", "b", "/", "c", ".">>
                               \o DEFAULT_SUFFIX

C7_Witness ==
  /\ ReadDone
  /\ last.name = <<"a", ".", "b", ".", "c">>
  /\ Len(last.probed) = 2
  /\ loadPaths[1] = <<"/", "x">>

\* the file a successful readNamespace call loaded
LoadedPath == DocumentedPath(loadPaths[FirstHit(last.name)], last.name)

\* C12: a successful readNamespace returns a Namespace with the import
\* location, the requested name, the full path of the first load-path hit
\* and, as its tree, the forms the reader gives for that file, in order;
\* the index maps the name to a buffer that holds the bytes of that file.
C12_NamespaceOfFirstHit ==
  (ReadDone /\ last.ret.ok) =>
    /\ Hits(last.name) # {}
    /\ last.ret.ns.location = last.importLoc
    /\ last.ret.ns.name = last.name
    /\ last.ret.ns.filename = LoadedPath
    /\ last.ret.ns.tree = read(files[LoadedPath], last.name, LoadedPath).ast
    /\ last.name \in DOMAIN nsTable
    /\ isValidBufferID(nsTable[last.name])
    /\ Bytes(nsTable[last.name]) = files[LoadedPath]
    /\ files[LoadedPath] = <<"1", " ", "b">> =>
          /\ Len(last.ret.ns.tree) = 2
          /\ last.ret.ns.tree[1].kind = "Number"
          /\ last.ret.ns.tree[1].value = <<"1">>
          /\ last.ret.ns.tree[2].kind = "Symbol"
          /\ last.ret.ns.tree[2].name = <<"b">>
          /\ last.ret.ns.tree[2].nsName = last.name

\* a file of two forms was loaded from the second directory of the load
\* path as the second buffer
C12_Witness ==
  /\ ReadDone /\ last.ret.ok
  /\ Len(last.ret.ns.tree) = 2
  /\ FirstHit(last.name) = 2
  /\ nsTable[last.name] = 2
  /\ last.importLoc # UnknownLocation

\* the reader's result for the file a readNamespace call found
ReaderResult == read(files[LoadedPath], last.name, LoadedPath)

\* C21: the reader returns its first error and no Ast, whatever forms it
\* read before; readNamespace then returns that same error, and neither a
\* Namespace nor a tree comes back.
C21_ReaderErrorHandedOn ==
  (ReadDone /\ Hits(last.name) # {} /\ ~ReaderResult.ok) =>
    /\ "ast" \notin DOMAIN ReaderResult
    /\ ~last.ret.ok
    /\ "ns" \notin DOMAIN last.ret
    /\ last.ret.type = ReaderResult.type
    /\ last.ret.location = ReaderResult.location
    /\ files[LoadedPath] = <<"b", " ", "(">> =>
          /\ last.ret.type = "EOFWhileScaningAList"
          /\ last.ret.location = [known |-> TRUE, line |-> 1, col |-> 3]

\* a file with a symbol and then an unclosed list was read
C21_Witness ==
  /\ ReadDone /\ Hits(last.name) # {}
  /\ files[LoadedPath] = <<"b", " ", "(">>
  /\ ~last.ret.ok
  /\ last.ret.type = "EOFWhileScaningAList"

\* C26: readNamespace never returns NSAddToSMError: the registration of
\* the found file always returns an id other than 0, which is the id the
\* index then holds for the name.
C26_NoAddToSMError ==
  ReadDone =>
    /\ last.ret.ok \/ last.ret.type # "NSAddToSMError"
    /\ Hits(last.name) # {} =>
          /\ last.name \in DOMAIN nsTable
          /\ nsTable[last.name] # 0
          /\ nsTable[last.name] = Len(buffers)

\* the last free buffer slot was filled by a readNamespace call
C26_Witness ==
  /\ ReadDone /\ Hits(last.name) # {}
  /\ Len(buffers) = MaxReads
  /\ nsTable[last.name] = MaxReads

\* the kinds of error the reader returns
ReaderErrorTypes ==
  { "InvalidDigitForNumber", "TwoFloatPoints", "InvalidCharacterForSymbol",
    "EOFWhileScaningAList" }

\* C27: a readNamespace call that fails in the reader has registered the
\* buffer and recorded the name all the same: the buffer count is one
\* higher than before and the index maps the name to the new id, in place
\* of any earlier id.
C27_ReaderFailureKeepsRegistration ==
  [][ (ReadStep /\ ~last'.ret.ok /\ last'.ret.type \in ReaderErrorTypes) =>
        /\ Len(buffers') = Len(buffers) + 1
        /\ \A i \in 1..Len(buffers) : buffers'[i] = buffers[i]
        /\ ~read(buffers'[Len(buffers')].buffer[1], last'.name, <<>>).ok
        /\ last'.name \in DOMAIN nsTable'
        /\ nsTable'[last'.name] = Len(buffers')
        /\ \A n \in DOMAIN nsTable : nsTable'[last'.name] # nsTable[n] ]_vars

\* a name read well before was read again from a file the reader rejects:
\* the index now points at the rejected buffer
C27_Witness ==
  /\ ReadDone /\ ~last.ret.ok
  /\ last.ret.type = "EOFWhileScaningAList"
  /\ Len(buffers) = 2
  /\ Bytes(1) = <<"1", " ", "b">>
  /\ Bytes(2) = <<"b", " ", "(">>
  /\ nsTable[last.name] = 2

\* C28: every id the namespace index holds is a valid buffer id, between
\* 1 and the number of buffers, so getBuffer may be called on it.
C28_IndexedIdsValid ==
  \A n \in DOMAIN nsTable :
    /\ 1 <= nsTable[n]
    /\ nsTable[n] <= Len(buffers)
    /\ isValidBufferID(nsTable[n])

\* both names are indexed, one of them by a buffer the reader rejected
C28_Witness ==
  /\ Cardinality(DOMAIN nsTable) = 2
  /\ ReadDone /\ ~last.ret.ok
  /\ Hits(last.name) # {}

-----------------------------------------------------------------------------
(* Properties of the element width *)


\* the width the documentation gives for a size
DocumentedWidth(sz) ==
  IF sz[1] = 0 /\ sz[2] <= 255 THEN 8
  ELSE IF sz[1] = 0 THEN 16
  ELSE IF sz[1] <= 65535 THEN 32
  ELSE 64

\* C11: the element width is 8 bits for a size up to 255, 16 up to 65535,
\* 32 up to 2^32-1 and 64 beyond; the size assertion of the cache builder
\* holds, every stored offset is the position of its newline, and the
\* destructor deletes the cache as a vector of the width it was built with.
C11_WidthFollowsSize ==
  /\ last.op = "getPointerForLineNumber" /\ "width" \in DOMAIN last =>
        /\ last.width = DocumentedWidth(last.size)
        /\ last.assertOk
        /\ heap[buffers[1].offsetCache].width = last.width
        /\ heap[buffers[1].offsetCache].offsets = last.newlines
  /\ last.op = "~SrcBuffer" /\ last.offsetCache # 0 =>
        /\ ~heap[last.offsetCache].live
        /\ heap[last.offsetCache].deletedAs = heap[last.offsetCache].width
        /\ heap[last.offsetCache].offsets = last.newlines

\* a cache of 64-bit elements holding an offset past 2^32 was built and
\* has been deleted
C11_Witness ==
  /\ last.op = "~SrcBuffer" /\ last.offsetCache # 0
  /\ heap[last.offsetCache].width = 64
  /\ heap[last.offsetCache].offsets = << <<0, 0>>, <<Pow2(16), 0>> >>

-----------------------------------------------------------------------------
(* Properties of the environments *)

Envs == namespace.environments
RootAddr == Envs[1].addr

\* C13: a Namespace always has an environment; the constructor makes the
\* root, which has no parent; createEnv only appends one new, empty
\* environment with the given parent and returns its address; getRootEnv
\* passes its assertion and returns the environment made at construction;
\* no step removes or reorders an environment.
C13_RootEnvKept ==
  /\ [](/\ Envs # <<>>
        /\ Envs[1].parent = 0
        /\ last.op = "Namespace" =>
              /\ Len(Envs) = 1 /\ Envs[1].pairs = <<>>
              /\ last.root = RootAddr
        /\ last.op = "getRootEnv" => last.assertOk /\ last.ret = RootAddr)
  /\ [][ /\ Len(Envs') >= Len(Envs)
         /\ \A i \in DOMAIN Envs :
              /\ Envs'[i].addr = Envs[i].addr
              /\ Envs'[i].parent = Envs[i].parent
         /\ last'.op = "createEnv" =>
              /\ Len(Envs') = Len(Envs) + 1
              /\ \A i \in DOMAIN Envs : Envs'[i] = Envs[i]
              /\ Envs'[Len(Envs')].parent = last'.parent
              /\ Envs'[Len(Envs')].pairs = <<>>
              /\ Envs'[Len(Envs')].addr = last'.ret
              /\ last'.ret \notin { Envs[i].addr : i \in DOMAIN Envs }
         /\ last'.op # "createEnv" => Len(Envs') = Len(Envs) ]_vars

\* getRootEnv was called after createEnv had made a child of the root
C13_Witness ==
  /\ last.op = "getRootEnv"
  /\ Len(Envs) >= 2
  /\ Envs[2].parent = RootAddr
  /\ last.ret = RootAddr

\* C15: define(name, node) binds name to node in the root environment,
\* over any earlier binding, so that a lookup of name in the root
\* environment yields node; it succeeds, and it leaves every other
\* environment and every other name as they were.
C15_DefineBindsInRoot ==
  /\ [](last.op = "define" =>
          /\ last.ret = "success"
          /\ last.name \in DOMAIN Envs[1].pairs
          /\ Envs[1].pairs[last.name] = last.node
          /\ lookup(Envs, RootAddr, last.name) = <<last.node>>)
  /\ [][ last'.op = "define" =>
           /\ \A i \in DOMAIN Envs : i # 1 => Envs'[i] = Envs[i]
           /\ \A k \in DOMAIN Envs[1].pairs :
                k # last'.name => Envs'[1].pairs[k] = Envs[1].pairs[k] ]_vars

\* the nearest binding of a key on the parent chain: <<value>>, or <<>>
\* when no environment of the chain binds the key
RECURSIVE NearestBinding(_, _)
NearestBinding(addr, key) ==
  LET e == EnvAt(Envs, addr)
  IN  IF key \in DOMAIN e.pairs THEN <<e.pairs[key]>>
      ELSE IF e.parent # 0 THEN NearestBinding(e.parent, key)
      ELSE <<>>

\* the key is bound in the environment and in its parent
Shadowing(e, key) ==
  /\ key \in DOMAIN e.pairs
  /\ e.parent # 0
  /\ key \in DOMAIN EnvAt(Envs, e.parent).pairs

\* C16: when a key is bound to v1 in a parent and to v2 in a child, for
\* all values v1 and v2, the default value included, the child's lookup
\* yields v2 and the parent's lookup yields v1; insert_symbol succeeds,
\* writes the given value under the key in its own environment and
\* changes nothing else.
C16_ChildShadowsParent ==
  /\ [](last.op = "lookup" =>
          LET e == EnvAt(Envs, last.env)
          IN  /\ Shadowing(e, last.key) => last.ret = <<e.pairs[last.key]>>
              /\ (\E c \in { Envs[i] : i \in DOMAIN Envs } :
                     c.parent = e.addr /\ Shadowing(c, last.key))
                    => last.ret = <<e.pairs[last.key]>>)
  /\ [][ last'.op = "insert_symbol" =>
           /\ last'.ret = "success"
           /\ \A i \in DOMAIN Envs :
                IF Envs[i].addr = last'.env
                  THEN /\ Envs'[i].pairs[last'.key] = last'.value
                       /\ \A k \in DOMAIN Envs[i].pairs :
                            k # last'.key => Envs'[i].pairs[k] = Envs[i].pairs[k]
                  ELSE Envs'[i] = Envs[i] ]_vars

\* C17: lookup(key) yields the value bound to key in the nearest
\* environment of the parent chain that binds key, whatever that value is,
\* and yields none exactly when no environment of the chain binds key.
C17_LookupNearestBinding ==
  last.op = "lookup" => last.ret = NearestBinding(last.env, last.key)

-----------------------------------------------------------------------------
(* Properties of the tree and of node ownership *)

Occurrences(seq, node) == Cardinality({ i \in DOMAIN seq : seq[i] = node })

RECURSIVE SumOver(_, _)
SumOver(lists, node) ==
  IF lists = <<>> THEN 0
  ELSE Occurrences(Head(lists).elements, node) + SumOver(Tail(lists), node)

\* the number of places that hold a node
Holders(node) ==
  Occurrences(own.ast, node) + Occurrences(namespace.tree, node)
    + SumOver(own.lists, node) + (IF own.n = node THEN 1 ELSE 0)

\* C20: every node is held in exactly one place (the Node handle, the
\* Ast, one List or the tree), and the side that gave nodes away holds
\* none of them: the Ast after a List construction or ExpandTree, the
\* handle after append, the moved-from List after a move.
C20_ExclusiveOwnership ==
  /\ \A node \in 1..own.made : Holders(node) = 1
  /\ last.op \in {"List", "ExpandTree"} => own.ast = <<>>
  /\ last.op = "List" => own.lists[Len(own.lists)].elements = last.given
  /\ last.op = "append" =>
        /\ own.n = 0
        /\ own.lists[last.to].elements[Len(own.lists[last.to].elements)]
             = last.given
  /\ last.op = "ListMove" =>
        /\ own.lists[last.from].elements = <<>>
        /\ own.lists[Len(own.lists)].elements = last.given

\* a List built from an Ast of one node got a second node by append and
\* was then moved from, and another node went into the tree
C20_Witness ==
  /\ last.op = "ListMove"
  /\ Len(last.given) = 2
  /\ namespace.tree # <<>>

-----------------------------------------------------------------------------
(* Properties of errors *)

\* C18: for every kind, an error made without an override message is
\* displayed as the default message of its kind, and an error made with
\* an override message is displayed as that message.
C18_DisplayedMessage ==
  last.op = "getMessage" =>
    IF last.override = <<>>
      THEN last.ret = errorMessages[TypeIndex(last.error.type)]
      ELSE last.ret = last.override[1]

-----------------------------------------------------------------------------
(* Properties of symbols *)

\* C19: a lexeme with a '/' gives as nsName the text before its first '/'
\* and as name all the text after it, later '/' included; a lexeme
\* without '/' gives the current namespace and the whole lexeme; so "a/b"
\* in any namespace and "b" in the namespace "a" give the same pair.
C19_SymbolSplit ==
  last.op = "Symbol" =>
    LET lexeme == last.lexeme
        node == last.node
    IN  /\ (\E j \in DOMAIN lexeme : lexeme[j] = "/") =>
              /\ node.nsName \o <<"/">> \o node.name = lexeme
              /\ \A j \in DOMAIN node.nsName : node.nsName[j] # "/"
        /\ (\A j \in DOMAIN lexeme : lexeme[j] # "/") =>
              /\ node.nsName = last.currentNS
              /\ node.name = lexeme
        /\ (lexeme = <<"a", "/", "b">>
               \/ (lexeme = <<"b">> /\ last.currentNS = <<"a">>)) =>
              /\ node.nsName = <<"a">>
              /\ node.name = <<"b">>

\* a lexeme with two '/' was split: the second '/' is in the name
C19_Witness ==
  /\ last.op = "Symbol"
  /\ last.lexeme = <<"/", "/", "b">>
  /\ last.node.nsName = <<>>
  /\ last.node.name = <<"/", "b">>
  /\ last.currentNS = <<"u", "s">>

-----------------------------------------------------------------------------
(* Properties of the JIT *)

\* the JITDylibs pushed for a name so far, oldest first
PushedIn(map, nsName) == IF nsName \in DOMAIN map THEN map[nsName] ELSE <<>>
Pushed(nsName) == PushedIn(jit.jitDylibs, nsName)

\* C24: the JIT keeps the JITDylibs pushed for a name in push order:
\* a push adds its JITDylib behind the earlier ones of that name and leaves
\* every other name alone; getLatestJITDylib returns the one pushed last
\* for the name, or null when there is none; getNumberOfJITDylibs returns
\* the number of pushes for the name; neither query changes the map.
C24_DylibStack ==
  /\ [](/\ last.op = "getLatestJITDylib" =>
              last.ret = (IF Pushed(last.nsName) = <<>> THEN 0
                          ELSE Pushed(last.nsName)[Len(Pushed(last.nsName))])
        /\ last.op = "getNumberOfJITDylibs" =>
              last.ret = Len(Pushed(last.nsName))
        /\ last.op = "pushJITDylib" =>
              /\ Pushed(last.nsName) # <<>>
              /\ Pushed(last.nsName)[Len(Pushed(last.nsName))] = last.l)
  /\ [][ /\ last'.op = "pushJITDylib" =>
              /\ PushedIn(jit'.jitDylibs, last'.nsName)
                   = Append(Pushed(last'.nsName), last'.l)
              /\ \A n \in Names \ {last'.nsName} :
                   PushedIn(jit'.jitDylibs, n) = Pushed(n)
         /\ last'.op # "pushJITDylib" => jit'.jitDylibs = jit.jitDylibs ]_vars

\* after two pushes for one name and one for the other, the latest of the
\* first name is asked for
C24_Witness ==
  /\ last.op = "getLatestJITDylib"
  /\ Len(Pushed(last.nsName)) = 2
  /\ Pushed(last.nsName)[1] # Pushed(last.nsName)[2]
  /\ last.ret = Pushed(last.nsName)[2]
  /\ \E n \in Names \ {last.nsName} : Len(Pushed(n)) = 1

\* C25: setLoadPaths(p) replaces the load paths: afterwards getLoadPaths()
\* is p, in its order, whatever was set before, and no step but
\* setLoadPaths changes the load paths.
C25_SetLoadPathsReplaces ==
  /\ [](/\ last.op = "setLoadPaths" =>
              /\ jit.loadPaths = last.given
              /\ JITgetLoadPaths(jit.loadPaths) = last.given
        /\ last.op = "getLoadPaths" => last.ret = jit.loadPaths)
  /\ [][ last'.op # "setLoadPaths" => jit'.loadPaths = jit.loadPaths ]_vars

\* two directories were set, then one of them alone
C25_Witness ==
  /\ last.op = "setLoadPaths"
  /\ Len(last.dirs) = 2
  /\ Len(last.given) = 1
  /\ jit.loadPaths = <<last.dirs[2]>>

\* C30: whenever dumpToObjectFile runs, under every Options and after
\* every history of compiled modules, the object cache exists and holds
\* exactly one object, so the assertion on its size holds; the cache holds
\* for each module the object notified last for it, and getObject gives
\* null for a module never notified.
C30_DumpFindsOneObject ==
  /\ [](/\ last.op = "dumpToObjectFile" =>
              /\ last.cacheExists
              /\ jit.cache # <<>>
              /\ Cardinality(DOMAIN jit.cache[1]) = 1
              /\ last.assertOk
        /\ last.op = "notifyObjectCompiled" =>
              getObject(jit.cache[1], last.m) = <<last.objBuffer>>
        /\ last.op = "getObject" =>
              (last.ret = <<>>) <=> (last.m \notin DOMAIN jit.cache[1]))
  /\ [][ /\ last'.op = "notifyObjectCompiled" =>
              \A m \in DOMAIN jit.cache[1] \ {last'.m} :
                jit'.cache[1][m] = jit.cache[1][m]
         /\ last'.op # "notifyObjectCompiled" => jit'.cache = jit.cache ]_vars

-----------------------------------------------------------------------------
(* Properties of the Expression variants *)

\* C23: every variant reports a type id of its own, so T::classof accepts
\* exactly the nodes constructed as T and no node of another variant.
C23_TypeIdsDiscriminate ==
  /\ \A i, j \in DOMAIN heap :
       heap[i].kind # heap[j].kind => getType(heap[i]) # getType(heap[j])
  /\ last.op = "classof" =>
       (last.ret <=> heap[last.node].kind = last.variant)

\* C29: the copy constructor of Symbol, Number, String, Keyword and Error
\* makes a node with the location and the attributes of the original and
\* leaves the original as it was.
C29_CopyFaithful ==
  [][ last'.op = "copy" =>
        /\ heap'[Len(heap')] = heap[last'.from]
        /\ heap'[last'.from] = heap[last'.from] ]_vars

-----------------------------------------------------------------------------
(* Properties of the reader's location tracking *)

\* the nodes of an Ast, the elements of its lists included
RECURSIVE NodesOf(_)
NodesOf(ast) ==
  UNION { {ast[i]} \cup (IF ast[i].kind = "List" THEN NodesOf(ast[i].elements)
                         ELSE {}) : i \in DOMAIN ast }

\* the first byte of the text a node was read from
FirstByte(node) ==
  CASE node.kind = "List" -> "("
    [] node.kind = "Number" -> IF node.isNeg THEN "-" ELSE node.value[1]
    [] OTHER -> node.name[1]

\* the order of locations within one buffer
LocationLeq(a, b) == a.line < b.line \/ (a.line = b.line /\ a.col <= b.col)

\* C22: after any prefix of the buffer has been consumed, the current
\* location has line 1 + the number of newlines consumed and the column
\* that starts at 1 after each newline and grows by one per other byte;
\* the reader only moves forward; and the start of every node's range is
\* the 1-based line and column of the node's first byte, with start <= end.
C22_LocationTracking ==
  /\ [](/\ LET pos == reader.currentPos
                newlines == { j \in 1..pos : reader.buf[j] = NL }
                lastNL == IF newlines = {} THEN 0
                          ELSE CHOOSE j \in newlines : \A k \in newlines : k <= j
            IN  /\ pos <= Len(reader.buf)
                /\ reader.currentLocation.line = 1 + Cardinality(newlines)
                /\ reader.currentLocation.col = 1 + (pos - lastNL)
        /\ (last.op = "read" /\ last.ret.ok) =>
              \A n \in NodesOf(last.ret.ast) :
                /\ \E p \in 1..Len(reader.buf) :
                     /\ reader.buf[p] = FirstByte(n)
                     /\ n.location.start =
                          advanceUntil(Reader(reader.buf), p - 1).currentLocation
                /\ LocationLeq(n.location.start, n.location.end))
  /\ [][ /\ reader'.buf = reader.buf
         /\ reader'.currentPos >= reader.currentPos ]_vars

\* a list with an element read on the second line, by a reader that has
\* itself consumed the newline and the opening parenthesis
C22_Witness ==
  /\ last.op = "read"
  /\ last.ret.ok
  /\ reader.currentLocation.line = 2
  /\ reader.currentLocation.col = 2
  /\ \E n \in NodesOf(last.ret.ast) :
       /\ n.kind = "List"
       /\ n.elements # <<>>
       /\ n.location.start.line = 2

====
